---- MODULE Spec2Model ----
(***************************************************************************)
(* GenSelfie: the promo-code admission gate (services/codes.py), the       *)
(* generate and generation-status handlers (routers/public.py) and the     *)
(* single-shot job resolver (services/comfyui.py).                         *)
(*                                                                         *)
(* Every handler is an asyncio coroutine with its own database session.    *)
(* A handler runs without interruption between two awaits, and other       *)
(* handlers run while it is suspended in one.  An action of this module is *)
(* the code of one handler between two awaits that touch shared state;     *)
(* what a session has loaded (its identity map) is kept in the request's   *)
(* record as a snapshot, because the code decides on the loaded object and *)
(* never re-reads the row.                                                 *)
(***************************************************************************)
EXTENDS Integers, Sequences, FiniteSets, TLC

\* ------------------------------------------------------------------ bounds
MaxTime == 2        \* the clock runs over 0..MaxTime
MaxUses == 2        \* finite codes start with 0..MaxUses uses
MaxCallers == 2     \* concurrent direct callers of validate_and_consume_code
MaxValidate == 2    \* validation previews that are logged
MaxGenReq == 2      \* /api/generate requests
MaxStatusReq == 2   \* /api/generation-status requests
MaxPolls == 2       \* direct calls of get_generation_status
MaxNodes == 2       \* output nodes in a history entry

\* Python's None in an integer or datetime column (database.py: nullable=True).
None == -1
\* Python's None in a string column.
Null == "NULL"

Callers == 1..MaxCallers
Times == 0..MaxTime
GenReqs == 1..MaxGenReq
StatusReqs == 1..MaxStatusReq

\* Codes an admin created, and the names create_failsafe_code draws: the
\* n-th token minted is TokenNames[n] (a fresh 48-bit random name each time).
AdminCodes == {"PROMO", "VIP"}
TokenNames == <<"RETRY-1", "RETRY-2", "RETRY-3", "RETRY-4", "RETRY-5">>
RetryTokens == {TokenNames[i] : i \in 1..MaxStatusReq}
Codes == AdminCodes \cup RetryTokens

PaymentIds == {"pay1"}
PendingIds == {"p1", "p2"}

\* --------------------------------------------------------------- variables
VARIABLES
    now,        \* datetime.utcnow(), in ticks
    promo,      \* table promo_codes: code -> row
    call,       \* direct callers of validate_and_consume_code
    validated,  \* the last response of a validation preview, numbered
    settings,   \* table settings, row 1
    generations,\* table generations: id -> row (ids are 1..Len)
    pending,    \* pending_stripe_sessions: pending_id -> stored entry
    paid,       \* payment references the provider reports as paid
    jobs,       \* the backend: prompt_id -> state of the job
    gen,        \* /api/generate requests
    st,         \* /api/generation-status requests
    comfyQueue, \* the backend's GET /queue body
    comfyHistory,\* the backend's GET /history/<prompt_id> body
    poll,       \* the running or last call of get_generation_status
    loop,       \* a poll loop: wait_for_completion or generate_example
    template,   \* the file workflows/genselfie.json
    heap,       \* the workflow dicts in memory: reference -> graph
    inst,       \* generate_selfie calls from the workflow's load on
    submitted,  \* the graphs POSTed to /prompt, in order
    mut,        \* the last direct call of a workflow mutation function
    issued,     \* the pending ids uuid4 has given to create_payment
    lookup,     \* the last response of get_pending_session
    comfyui_url \* settings.comfyui_url of the running process

gateVars == <<call, validated>>
orchVars == <<settings, generations, pending, paid, jobs, gen, st>>
resVars == <<comfyQueue, comfyHistory, poll>>
flowVars == <<template, heap, inst, submitted, mut>>
payVars == <<issued, lookup>>
sideVars == <<loop, flowVars, payVars, comfyui_url>>
ledgerVars == <<now, promo, gateVars, orchVars, resVars>>
vars == <<now, promo, call, validated, settings, generations, pending, paid,
          jobs, gen, st, comfyQueue, comfyHistory, poll, loop, template, heap,
          inst, submitted, mut, issued, lookup, comfyui_url>>

\* ------------------------------------------------------------- promo codes
\* A row of promo_codes; exists = FALSE stands for "no such row".
PromoRow(active, uses, maxUses, expires) ==
    [exists |-> TRUE, is_active |-> active, uses_remaining |-> uses,
     max_uses |-> maxUses, expires_at |-> expires]

NoRow ==
    [exists |-> FALSE, is_active |-> FALSE, uses_remaining |-> None,
     max_uses |-> None, expires_at |-> None]

\* select(PromoCode).where(code == :code).where(is_active == True),
\* scalar_one_or_none(): the row as the session loads it, or no row.
SelectActive(table, code) ==
    IF code \in DOMAIN table /\ table[code].exists /\ table[code].is_active
    THEN table[code]
    ELSE NoRow

\* ConsumeError with the expiry compared by <=: a code is refused from the
\* instant expires_at on.
ConsumeError_ExpiredAtBoundary(row, t) ==
    IF ~row.exists THEN "Invalid promo code"
    ELSE IF row.uses_remaining # None /\ row.uses_remaining <= 0
         THEN "This code has been fully used"
    ELSE IF row.expires_at # None /\ row.expires_at <= t
         THEN "This code has expired"
    ELSE ""

\* The three checks of validate_and_consume_code on the loaded row, in the
\* code's order; "" is success.
ConsumeError(row, t) ==
    IF ~row.exists THEN "Invalid promo code"
    ELSE IF row.uses_remaining # None /\ row.uses_remaining <= 0
         THEN "This code has been fully used"
    ELSE IF row.expires_at # None /\ row.expires_at < t
         THEN "This code has expired"
    ELSE ""

\* promo.uses_remaining -= 1 on the loaded object, when finite.
ConsumedUses(row) ==
    IF row.uses_remaining # None THEN row.uses_remaining - 1
    ELSE row.uses_remaining

\* db.commit() after the decrement: the session flushes the attribute it
\* changed, UPDATE promo_codes SET uses_remaining = <the value computed from
\* the loaded row>; an unlimited code has no change to flush.
CommitConsume(table, code, row) ==
    IF row.uses_remaining # None
    THEN [table EXCEPT ![code].uses_remaining = ConsumedUses(row)]
    ELSE table

\* ValidateCodeError without the expiry check.
ValidateCodeError_NoExpiry(row, t) ==
    IF ~row.exists THEN "Invalid code"
    ELSE IF row.uses_remaining # None /\ row.uses_remaining <= 0
         THEN "Code has been fully used"
    ELSE ""

\* The validate_code endpoint on the loaded row.
ValidateCodeError(row, t) ==
    IF ~row.exists THEN "Invalid code"
    ELSE IF row.uses_remaining # None /\ row.uses_remaining <= 0
         THEN "Code has been fully used"
    ELSE IF row.expires_at # None /\ row.expires_at < t
         THEN "Code has expired"
    ELSE ""

\* GetCodeInfoError with the expiry looked at before the uses.
GetCodeInfoError_ExpiryFirst(row, t) ==
    IF ~row.exists THEN "Invalid code"
    ELSE IF row.expires_at # None /\ row.expires_at < t
         THEN "Code expired"
    ELSE IF row.uses_remaining # None /\ row.uses_remaining <= 0
         THEN "Code fully used"
    ELSE ""

\* get_code_info on the loaded row.
GetCodeInfoError(row, t) ==
    IF ~row.exists THEN "Invalid code"
    ELSE IF row.uses_remaining # None /\ row.uses_remaining <= 0
         THEN "Code fully used"
    ELSE IF row.expires_at # None /\ row.expires_at < t
         THEN "Code expired"
    ELSE ""

\* ------------------------------------------------------------------ clock
Tick ==
    /\ now < MaxTime
    /\ now' = now + 1
    /\ UNCHANGED <<sideVars, promo, call, validated, orchVars, resVars>>

\* ------------------------------------- validate_and_consume_code, directly
\* stored and at are kept for the record: the row as the table held it when
\* the SELECT ran, and the clock when the checks ran.
IdleCall ==
    [pc |-> "idle", code |-> Null, snap |-> NoRow, error |-> Null,
     stored |-> NoRow, at |-> 0]

\* Up to the first await: the SELECT; the coroutine is suspended in it.
ConsumeRead(c, code) ==
    /\ call[c].pc = "idle"
    /\ call' = [call EXCEPT ![c] =
                  [pc |-> "loaded", code |-> code,
                   snap |-> SelectActive(promo, code), error |-> Null,
                   stored |-> promo[code], at |-> 0]]
    /\ UNCHANGED <<sideVars, now, promo, validated, orchVars, resVars>>

\* From the SELECT's result to the return: the checks, the decrement and the
\* commit, all on the row as it was loaded.
ConsumeFinish(c) ==
    /\ call[c].pc = "loaded"
    /\ LET err == ConsumeError(call[c].snap, now) IN
         /\ call' = [call EXCEPT ![c].pc = "done", ![c].error = err,
                                   ![c].at = now]
         /\ promo' = IF err = ""
                     THEN CommitConsume(promo, call[c].code, call[c].snap)
                     ELSE promo
    /\ UNCHANGED <<sideVars, now, validated, orchVars, resVars>>

\* --------------------------------------------------- validation previews
NoPreview ==
    [n |-> 0, endpoint |-> Null, code |-> Null, at |-> 0, error |-> Null]

\* ValidateCode that consumes a use of a code it finds valid.
ValidateCode_Consuming(code) ==
    /\ validated.n < MaxValidate
    /\ LET row == SelectActive(promo, code)
           err == ValidateCodeError(row, now) IN
         /\ validated' = [n |-> validated.n + 1, endpoint |-> "validate_code",
                          code |-> code, at |-> now, error |-> err]
         /\ promo' = IF err = "" THEN CommitConsume(promo, code, row) ELSE promo
    /\ UNCHANGED <<sideVars, now, call, orchVars, resVars>>

\* POST /api/validate-code: one SELECT, then the checks; nothing is written.
ValidateCode(code) ==
    /\ validated.n < MaxValidate
    /\ validated' = [n |-> validated.n + 1, endpoint |-> "validate_code",
                     code |-> code, at |-> now,
                     error |-> ValidateCodeError(SelectActive(promo, code), now)]
    /\ UNCHANGED <<sideVars, now, promo, call, orchVars, resVars>>

GetCodeInfo(code) ==
    /\ validated.n < MaxValidate
    /\ validated' = [n |-> validated.n + 1, endpoint |-> "get_code_info",
                     code |-> code, at |-> now,
                     error |-> GetCodeInfoError(SelectActive(promo, code), now)]
    /\ UNCHANGED <<sideVars, now, promo, call, orchVars, resVars>>

\* ------------------------------------------------------- the ledger's rows
\* Generation(... status="pending"): the other columns take their defaults.
NewGeneration(method, code, paymentId) ==
    [status |-> "pending", prompt_id |-> None, result_image_url |-> None,
     retry_code |-> Null, completed_at |-> None, payment_method |-> method,
     promo_code_used |-> code, payment_id |-> paymentId]

NoGeneration == NewGeneration(Null, Null, Null)

\* create_failsafe_code: PromoCode(code, uses_remaining=1, max_uses=1,
\* is_active=True), no expiry.
FailsafeRow == PromoRow(TRUE, 1, 1, None)

\* The name the next create_failsafe_code draws.
MintedTokens == {t \in RetryTokens : promo[t].exists}
NewToken == TokenNames[Cardinality(MintedTokens) + 1]

\* download_and_save_result: "/uploads/results/selfie_<generation_id>.png",
\* named here by the generation id.
LocalUrl(gid) == gid

\* ------------------------------------------------------------ the backend
\* A job is "queued" (in queue_pending or queue_running), or it has left the
\* queue and its history is not written yet ("lagging"), holds an image
\* output ("image") or holds no recognizable output ("empty").
JobStates == {"queued", "lagging", "image", "empty"}

\* is_prompt_complete: get_queue_status returns the empty snapshot when the
\* fetch fails, and the job is then not found in it.
IsPromptComplete(job, queueOk) ==
    IF queueOk THEN job # "queued" ELSE TRUE

\* GetGenerationStatus that reports a job out of the queue as completed
\* when its history is not there: completed, with no output.
GetGenerationStatus_AbsentIsCompleted(pid, job, queueOk, histOk) ==
    IF ~IsPromptComplete(job, queueOk)
    THEN [completed |-> FALSE, image_url |-> None]
    ELSE IF job = "image" /\ histOk
    THEN [completed |-> TRUE, image_url |-> pid]
    ELSE [completed |-> TRUE, image_url |-> None]

\* get_generation_status(prompt_id): completed, and the output's URL (the
\* prompt id names it here) or None.
GetGenerationStatus(pid, job, queueOk, histOk) ==
    IF ~IsPromptComplete(job, queueOk)
    THEN [completed |-> FALSE, image_url |-> None]
    ELSE IF ~histOk \/ job \in {"queued", "lagging"}
    THEN [completed |-> FALSE, image_url |-> None]
    ELSE IF job = "image"
    THEN [completed |-> TRUE, image_url |-> pid]
    ELSE [completed |-> TRUE, image_url |-> None]

\* The backend runs a queued job to its end.
BackendFinish(j, out) ==
    /\ j \in DOMAIN jobs
    /\ jobs[j] = "queued"
    /\ jobs' = [jobs EXCEPT ![j] = out]
    /\ UNCHANGED <<sideVars, now, promo, gateVars, resVars, settings, generations, pending, paid,
                   gen, st>>

\* The payment provider records a payment.
ProviderPays(p) ==
    /\ p \notin paid
    /\ paid' = paid \cup {p}
    /\ UNCHANGED <<sideVars, now, promo, gateVars, resVars, settings, generations, pending, jobs,
                   gen, st>>

\* check_payment_status(method, payment_id).get("paid"): a provider error is
\* caught and reported as paid = False.
VerifyOutcomes(p) == IF p \in paid THEN {"paid", "error"} ELSE {"unpaid", "error"}
\* IsPaid failing open: only an explicit "unpaid" refuses.
IsPaid_FailOpen(outcome) == outcome # "unpaid"

IsPaid(outcome) == outcome = "paid"

\* ---------------------------------------------------------- /api/generate
IdleGen ==
    [pc |-> "idle", method |-> Null, code |-> Null, payment_id |-> Null,
     image |-> FALSE, snap |-> NoRow, verify |-> Null, authorized |-> FALSE,
     gid |-> None, selfie |-> Null, infl |-> Null, http |-> 0,
     detail |-> Null, pending_id |-> Null, session |-> "absent"]

\* The forms a request can carry.
GenForms ==
    [method : {"code"}, code : {Null, "PROMO"},
     payment_id : {Null}, image : BOOLEAN] \cup
    [method : {"stripe", "lightning"}, code : {Null},
     payment_id : {Null} \cup PaymentIds, image : BOOLEAN] \cup
    [method : {"paypal"}, code : {Null}, payment_id : {Null}, image : {TRUE}]

\* The handler has returned: its locals are gone, and what is kept of the
\* request is its response and what it did.
Returned(req, status, text) ==
    [IdleGen EXCEPT !.pc = "done", !.http = status, !.detail = text,
                    !.verify = req.verify, !.authorized = req.authorized,
                    !.gid = req.gid, !.selfie = req.selfie,
                    !.infl = req.infl, !.pending_id = req.pending_id,
                    !.session = req.session]

Refuse(g, status, text) ==
    [gen EXCEPT ![g] = Returned(gen[g], status, text)]

\* PopSession that reads the entry and leaves it in the store.
PopSession_Kept(store, pid) ==
    [store |-> store,
     session |-> IF pid # Null THEN store[pid] ELSE "absent"]

\* "if pending_id and pending_id in pending_stripe_sessions:
\*      pending_session = pending_stripe_sessions.pop(pending_id)":
\* the store afterwards and the entry taken ("absent" for None).
PopSession(store, pid) ==
    IF pid # Null /\ store[pid] # "absent"
    THEN [store |-> [store EXCEPT ![pid] = "absent"], session |-> store[pid]]
    ELSE [store |-> store, session |-> "absent"]

\* create_payment: for a Stripe payment with an active preset the inputs
\* are stored under a new uuid4; stored says whether an image came with
\* them.
CreatePayment(payment_type, presetOk, stripe_enabled, stored) ==
    /\ presetOk /\ payment_type = "stripe" /\ stripe_enabled
    /\ \E pending_id \in PendingIds \ issued :
         /\ issued' = issued \cup {pending_id}
         /\ pending' = [pending EXCEPT ![pending_id] = stored]
    /\ UNCHANGED <<comfyui_url, loop, flowVars, lookup, now, promo, gateVars, resVars,
                   settings, generations, paid, jobs, gen, st>>

\* get_pending_session: pending_stripe_sessions.get(pending_id) and the
\* response; the image's URL is given when a path is stored and the file
\* exists.
NoLookup == [pending_id |-> Null, found |-> FALSE, image_url |-> FALSE]

GetPendingSession(pending_id, fileExists) ==
    /\ lookup' = [pending_id |-> pending_id,
                  found |-> pending[pending_id] # "absent",
                  image_url |-> pending[pending_id] = "image" /\ fileExists]
    /\ UNCHANGED <<comfyui_url, loop, flowVars, issued, ledgerVars>>

\* GenStart that takes a use of the code before it looks at the preset and
\* at the settings.
GenStart_ConsumeFirst(g, form, pid, presetOk, outcome) ==
    /\ gen[g].pc = "idle"
    /\ pending' = PopSession(pending, pid).store
    /\ LET pending_session == PopSession(pending, pid).session
           image == form.image \/ pending_session = "image"
           req == [gen[g] EXCEPT !.method = form.method, !.code = form.code,
                                 !.payment_id = form.payment_id,
                                 !.image = image, !.pending_id = pid,
                                 !.session = pending_session]
           bad(text) == Returned(req, 400, text)
       IN gen' = [gen EXCEPT ![g] =
            IF ~presetOk THEN bad("Invalid or inactive preset")
            ELSE IF form.method = "code" THEN
                IF ~settings.codes_enabled THEN bad("Promo codes not enabled")
                ELSE IF form.code = Null THEN bad("Promo code required")
                ELSE [req EXCEPT !.pc = "loaded",
                                 !.snap = SelectActive(promo, form.code)]
            ELSE IF form.method \in {"stripe", "lightning"} THEN
                IF form.payment_id = Null THEN bad("Payment ID required")
                ELSE IF ~IsPaid(outcome)
                     THEN Returned([req EXCEPT !.verify = outcome], 400,
                                   "Payment not completed")
                ELSE [req EXCEPT !.pc = "authorized", !.verify = outcome,
                                 !.authorized = TRUE]
            ELSE bad("Invalid payment method")]
    /\ outcome \in (IF form.payment_id = Null THEN {"error"}
                    ELSE VerifyOutcomes(form.payment_id))
    /\ promo' = IF form.method = "code" /\ form.code # Null
                   /\ ConsumeError(SelectActive(promo, form.code), now) = ""
                THEN CommitConsume(promo, form.code,
                                   SelectActive(promo, form.code))
                ELSE promo
    /\ UNCHANGED <<sideVars, now, gateVars, resVars, settings, generations, paid, jobs, st>>

\* GenStart that removes the pending session only when the request is not
\* refused.
GenStart_PopWhenAccepted(g, form, pid, presetOk, outcome) ==
    /\ gen[g].pc = "idle"
    /\ LET pending_session == PopSession(pending, pid).session
           image == form.image \/ pending_session = "image"
           req == [gen[g] EXCEPT !.method = form.method, !.code = form.code,
                                 !.payment_id = form.payment_id,
                                 !.image = image, !.pending_id = pid,
                                 !.session = pending_session]
           bad(text) == Returned(req, 400, text)
       IN gen' = [gen EXCEPT ![g] =
            IF ~presetOk THEN bad("Invalid or inactive preset")
            ELSE IF form.method = "code" THEN
                IF ~settings.codes_enabled THEN bad("Promo codes not enabled")
                ELSE IF form.code = Null THEN bad("Promo code required")
                ELSE [req EXCEPT !.pc = "loaded",
                                 !.snap = SelectActive(promo, form.code)]
            ELSE IF form.method \in {"stripe", "lightning"} THEN
                IF form.payment_id = Null THEN bad("Payment ID required")
                ELSE IF ~IsPaid(outcome)
                     THEN Returned([req EXCEPT !.verify = outcome], 400,
                                   "Payment not completed")
                ELSE [req EXCEPT !.pc = "authorized", !.verify = outcome,
                                 !.authorized = TRUE]
            ELSE bad("Invalid payment method")]
    /\ pending' = IF gen'[g].pc = "done" THEN pending
                  ELSE PopSession(pending, pid).store
    /\ outcome \in (IF form.payment_id = Null THEN {"error"}
                    ELSE VerifyOutcomes(form.payment_id))
    /\ UNCHANGED <<sideVars, now, promo, gateVars, resVars, settings, generations, paid, jobs, st>>

\* From the entry to the first await of the authorization: the pending
\* session is popped, the preset is looked up, and then per payment method
\* either the code's row is SELECTed or the provider is asked.
GenStart(g, form, pid, presetOk, outcome) ==
    /\ gen[g].pc = "idle"
    /\ pending' = PopSession(pending, pid).store
    /\ LET pending_session == PopSession(pending, pid).session
           image == form.image \/ pending_session = "image"
           req == [gen[g] EXCEPT !.method = form.method, !.code = form.code,
                                 !.payment_id = form.payment_id,
                                 !.image = image, !.pending_id = pid,
                                 !.session = pending_session]
           bad(text) == Returned(req, 400, text)
       IN gen' = [gen EXCEPT ![g] =
            IF ~presetOk THEN bad("Invalid or inactive preset")
            ELSE IF form.method = "code" THEN
                IF ~settings.codes_enabled THEN bad("Promo codes not enabled")
                ELSE IF form.code = Null THEN bad("Promo code required")
                ELSE [req EXCEPT !.pc = "loaded",
                                 !.snap = SelectActive(promo, form.code)]
            ELSE IF form.method \in {"stripe", "lightning"} THEN
                IF form.payment_id = Null THEN bad("Payment ID required")
                ELSE IF ~IsPaid(outcome)
                     THEN Returned([req EXCEPT !.verify = outcome], 400,
                                   "Payment not completed")
                ELSE [req EXCEPT !.pc = "authorized", !.verify = outcome,
                                 !.authorized = TRUE]
            ELSE bad("Invalid payment method")]
    /\ outcome \in (IF form.payment_id = Null THEN {"error"}
                    ELSE VerifyOutcomes(form.payment_id))
    /\ UNCHANGED <<sideVars, now, promo, gateVars, resVars, settings, generations, paid, jobs, st>>

\* validate_and_consume_code from the SELECT's result on, inside generate.
GenConsume(g) ==
    /\ gen[g].pc = "loaded"
    /\ LET err == ConsumeError(gen[g].snap, now) IN
         IF err = ""
         THEN /\ promo' = CommitConsume(promo, gen[g].code, gen[g].snap)
              /\ gen' = [gen EXCEPT ![g].pc = "authorized",
                                    ![g].authorized = TRUE]
         ELSE /\ promo' = promo
              /\ gen' = Refuse(g, 400, err)
    /\ UNCHANGED <<sideVars, now, gateVars, resVars, settings, generations, pending, paid, jobs,
                   st>>

\* After the authorization: the fan image and the influencer images are
\* looked up, and the ledger row is inserted as pending and committed.
GenCreate(g, influencers) ==
    /\ gen[g].pc = "authorized"
    /\ IF ~gen[g].image
       THEN /\ gen' = Refuse(g, 400, "No fan image provided")
            /\ UNCHANGED generations
       ELSE IF ~influencers
       THEN /\ gen' = Refuse(g, 400, "No influencer images configured")
            /\ UNCHANGED generations
       ELSE /\ generations' = Append(generations,
                  NewGeneration(gen[g].method, gen[g].code, gen[g].payment_id))
            /\ gen' = [gen EXCEPT ![g].pc = "created",
                                  ![g].gid = Len(generations) + 1]
    /\ UNCHANGED <<sideVars, now, promo, gateVars, resVars, settings, pending, paid, jobs, st>>

\* What the backend answers to POST /upload/image and POST /prompt.
UploadResponses == {"200", "not 200", "transport error"}
QueueResponses ==
    {"200 with prompt_id", "200 without prompt_id", "not 200",
     "transport error"}

\* upload_image_to_comfyui / upload_image_from_url: True only on a 200.
UploadImage(resp) == resp = "200"

\* queue_prompt: the prompt id of a 200 response, None otherwise; TRUE here
\* stands for "a prompt id was returned".
QueuePrompt(resp) == resp = "200 with prompt_id"

\* generate_selfie: the fan image's upload must succeed, the influencer
\* image's upload is not looked at, and queue_prompt gives a prompt id or
\* None; an exception is what generate sees of a failure.
GenerateSelfie(fanUp, inflUp, queued) ==
    IF ~fanUp THEN "Failed to upload fan image to ComfyUI"
    ELSE IF ~queued THEN "Failed to queue prompt on ComfyUI"
    ELSE "submitted"

\* What became of the influencer image's upload inside generate_selfie: it
\* is not attempted when the fan image's upload failed.
InfluencerUpload(fanUp, inflUp) ==
    IF ~fanUp THEN "none" ELSE IF inflUp THEN "ok" ELSE "rejected"

\* GenSubmit that marks the row processing without storing the prompt id.
GenSubmit_NoPromptId(g, fanUp, inflUp, queued) ==
    /\ gen[g].pc = "created"
    /\ LET out == GenerateSelfie(fanUp, inflUp, queued)
           up == InfluencerUpload(fanUp, inflUp)
           gid == gen[g].gid
       IN IF out = "submitted"
          THEN /\ jobs' = Append(jobs, "queued")
               /\ generations' = [generations EXCEPT
                                    ![gid].status = "processing"]
               /\ gen' = [gen EXCEPT ![g] =
                      Returned([gen[g] EXCEPT !.selfie = out, !.infl = up], 200, Null)]
          ELSE /\ jobs' = jobs
               /\ generations' = [generations EXCEPT ![gid].status = "failed"]
               /\ gen' = [gen EXCEPT ![g] =
                      Returned([gen[g] EXCEPT !.selfie = out, !.infl = up], 500, out)]
    /\ UNCHANGED <<sideVars, now, promo, gateVars, resVars, settings, pending, paid, st>>

\* GenSubmit that answers 500 on a failed submission and leaves the row as
\* it was inserted.
GenSubmit_FailedStaysPending(g, fanUp, inflUp, queued) ==
    /\ gen[g].pc = "created"
    /\ LET out == GenerateSelfie(fanUp, inflUp, queued)
           up == InfluencerUpload(fanUp, inflUp)
           gid == gen[g].gid
       IN IF out = "submitted"
          THEN /\ jobs' = Append(jobs, "queued")
               /\ generations' = [generations EXCEPT
                                    ![gid].prompt_id = Len(jobs) + 1,
                                    ![gid].status = "processing"]
               /\ gen' = [gen EXCEPT ![g] =
                      Returned([gen[g] EXCEPT !.selfie = out, !.infl = up], 200, Null)]
          ELSE /\ jobs' = jobs
               /\ generations' = generations
               /\ gen' = [gen EXCEPT ![g] =
                      Returned([gen[g] EXCEPT !.selfie = out, !.infl = up], 500, out)]
    /\ UNCHANGED <<sideVars, now, promo, gateVars, resVars, settings, pending, paid, st>>

\* The try block of generate and its commit.
GenSubmit(g, fanUp, inflUp, queued) ==
    /\ gen[g].pc = "created"
    /\ LET out == GenerateSelfie(fanUp, inflUp, queued)
           up == InfluencerUpload(fanUp, inflUp)
           gid == gen[g].gid
       IN IF out = "submitted"
          THEN /\ jobs' = Append(jobs, "queued")
               /\ generations' = [generations EXCEPT
                                    ![gid].prompt_id = Len(jobs) + 1,
                                    ![gid].status = "processing"]
               /\ gen' = [gen EXCEPT ![g] =
                      Returned([gen[g] EXCEPT !.selfie = out, !.infl = up], 200, Null)]
          ELSE /\ jobs' = jobs
               /\ generations' = [generations EXCEPT ![gid].status = "failed"]
               /\ gen' = [gen EXCEPT ![g] =
                      Returned([gen[g] EXCEPT !.selfie = out, !.infl = up], 500, out)]
    /\ UNCHANGED <<sideVars, now, promo, gateVars, resVars, settings, pending, paid, st>>

\* ------------------------------------------- /api/generation-status/{id}
NoResponse == [status |-> Null, result_url |-> None, retry_code |-> Null]

IdleStatus ==
    [pc |-> "idle", gid |-> None, snap |-> NoGeneration, seen |-> Null,
     queried |-> FALSE,
     downloaded |-> FALSE, token |-> Null, commits |-> 0, http |-> 0,
     resp |-> NoResponse]

Respond(status, url, code) ==
    [status |-> status, result_url |-> url, retry_code |-> code]

\* The handler answers 200 with a body and returns; its session is closed.
Answer(req, body) ==
    [req EXCEPT !.pc = "done", !.http = 200, !.resp = body,
                !.snap = NoGeneration]

\* StatusRead without the early return for a failed row.
StatusRead_FailedRowPolled(s, gid) ==
    /\ st[s].pc = "idle"
    /\ IF gid \notin DOMAIN generations
       THEN st' = [st EXCEPT ![s].pc = "done", ![s].gid = gid, ![s].http = 404]
       ELSE LET row == generations[gid]
                req == [st[s] EXCEPT !.gid = gid, !.snap = row,
                                     !.seen = row.status] IN
            st' = [st EXCEPT ![s] =
              IF row.status = "completed"
              THEN Answer(req, Respond("completed", row.result_image_url, Null))
              ELSE IF row.prompt_id # None
              THEN [req EXCEPT !.pc = "polling"]
              ELSE Answer(req, Respond(row.status, None, Null))]
    /\ UNCHANGED <<sideVars, now, promo, gateVars, resVars, settings, generations, pending, paid,
                   jobs, gen>>

\* StatusRead that asks the backend about every row that is not terminal,
\* whether or not it holds a prompt id.
StatusRead_PendingPolled(s, gid) ==
    /\ st[s].pc = "idle"
    /\ IF gid \notin DOMAIN generations
       THEN st' = [st EXCEPT ![s].pc = "done", ![s].gid = gid, ![s].http = 404]
       ELSE LET row == generations[gid]
                req == [st[s] EXCEPT !.gid = gid, !.snap = row,
                                     !.seen = row.status] IN
            st' = [st EXCEPT ![s] =
              IF row.status = "completed"
              THEN Answer(req, Respond("completed", row.result_image_url, Null))
              ELSE IF row.status = "failed"
              THEN Answer(req, Respond("failed", None, row.retry_code))
              ELSE [req EXCEPT !.pc = "polling"]]
    /\ UNCHANGED <<sideVars, now, promo, gateVars, resVars, settings, generations, pending, paid,
                   jobs, gen>>

\* db.get(Generation, id) and the branches that answer from the loaded row.
StatusRead(s, gid) ==
    /\ st[s].pc = "idle"
    /\ IF gid \notin DOMAIN generations
       THEN st' = [st EXCEPT ![s].pc = "done", ![s].gid = gid, ![s].http = 404]
       ELSE LET row == generations[gid]
                req == [st[s] EXCEPT !.gid = gid, !.snap = row,
                                     !.seen = row.status] IN
            st' = [st EXCEPT ![s] =
              IF row.status = "completed"
              THEN Answer(req, Respond("completed", row.result_image_url, Null))
              ELSE IF row.status = "failed"
              THEN Answer(req, Respond("failed", None, row.retry_code))
              ELSE IF row.prompt_id # None
              THEN [req EXCEPT !.pc = "polling"]
              ELSE Answer(req, Respond(row.status, None, Null))]
    /\ UNCHANGED <<sideVars, now, promo, gateVars, resVars, settings, generations, pending, paid,
                   jobs, gen>>

\* The single-shot check, the download and the first commit: the decisions
\* are taken on the loaded row, the flush writes the attributes this session
\* changed.  download_and_save_result raises on a None URL and whenever the
\* fetch fails.  On failure with the failsafe on and no retry_code loaded,
\* create_failsafe_code inserts the token and commits, which also flushes
\* status = "failed"; generation.retry_code is assigned after that commit.
StatusResolve(s, queueOk, histOk, fetchOk) ==
    /\ st[s].pc = "polling"
    /\ LET gid == st[s].gid
           row == st[s].snap
           res == GetGenerationStatus(row.prompt_id, jobs[row.prompt_id],
                                      queueOk, histOk)
           req == [st[s] EXCEPT !.queried = TRUE]
       IN IF ~res.completed
          THEN /\ st' = [st EXCEPT ![s] =
                    Answer(req, Respond(row.status, None, Null))]
               /\ UNCHANGED <<generations, promo>>
          ELSE IF res.image_url # None /\ fetchOk
          THEN /\ generations' = [generations EXCEPT
                     ![gid].status = "completed",
                     ![gid].result_image_url = LocalUrl(gid),
                     ![gid].completed_at = now]
               /\ st' = [st EXCEPT ![s] =
                    Answer([req EXCEPT !.downloaded = TRUE, !.commits = 1],
                           Respond("completed", LocalUrl(gid), Null))]
               /\ UNCHANGED promo
          ELSE IF settings.failsafe_enabled /\ row.retry_code = Null
          THEN /\ promo' = [promo EXCEPT ![NewToken] = FailsafeRow]
               /\ generations' = [generations EXCEPT ![gid].status = "failed"]
               /\ st' = [st EXCEPT ![s] =
                    [req EXCEPT !.pc = "minted", !.token = NewToken,
                                !.commits = 1]]
          ELSE /\ generations' = [generations EXCEPT ![gid].status = "failed"]
               /\ st' = [st EXCEPT ![s] =
                    Answer([req EXCEPT !.commits = 1],
                           Respond("failed", None, Null))]
               /\ UNCHANGED promo
    /\ UNCHANGED <<sideVars, now, gateVars, resVars, settings, pending, paid, jobs, gen>>

\* StatusRecordRetry that answers with the token and leaves the row as it is.
StatusRecordRetry_NotRecorded(s) ==
    /\ st[s].pc = "minted"
    /\ generations' = generations
    /\ st' = [st EXCEPT ![s] =
                Answer([st[s] EXCEPT !.commits = 2],
                       Respond("failed", None, st[s].token))]
    /\ UNCHANGED <<sideVars, now, promo, gateVars, resVars, settings, pending, paid, jobs, gen>>

\* generation.retry_code = retry_code and the second commit.
StatusRecordRetry(s) ==
    /\ st[s].pc = "minted"
    /\ generations' = [generations EXCEPT ![st[s].gid].retry_code = st[s].token]
    /\ st' = [st EXCEPT ![s] =
                Answer([st[s] EXCEPT !.commits = 2],
                       Respond("failed", None, st[s].token))]
    /\ UNCHANGED <<sideVars, now, promo, gateVars, resVars, settings, pending, paid, jobs, gen>>

\* The client polls again: a request that has returned is followed by a new
\* one.
StatusAgain(s) ==
    /\ st[s].pc = "done"
    /\ st' = [st EXCEPT ![s] = IdleStatus]
    /\ UNCHANGED <<sideVars, now, promo, gateVars, resVars, settings,
                   generations, pending, paid, jobs, gen>>

\* ------------------------------------------------- the resolver, in detail
\* The job the resolver is asked about, another job in the backend's queue,
\* and get_comfyui_url().
PromptId == "prompt-1"
OtherId == "prompt-0"
BaseUrl == "http://comfyui:8188"

\* settings.comfyui_url: an address, followed by "/" or not.  The job was
\* submitted to the backend at BaseUrl; the backend at OtherUrl has never
\* heard of it.
Setting(url, slash) == [url |-> url, slash |-> slash]
OtherUrl == "http://other:8188"
\* The setting as the environment gave it when the process started.
DefaultSetting == Setting(BaseUrl, FALSE)

\* get_comfyui_url: settings.comfyui_url.rstrip("/").
GetComfyuiUrl(setting) == setting.url

\* The values of the admin's form field: an address with or without its
\* scheme, a closing "/" and spaces around it.
UrlForms ==
    [spaces : BOOLEAN, scheme : {"", "http://"},
     host : {"comfyui:8188", "other:8188"}, slash : BOOLEAN]

\* update_comfyui_url's clean_url: strip(), and "http://" put in front of
\* an address without a scheme.
CleanUrl(form) ==
    Setting((IF form.scheme = "" THEN "http://" ELSE form.scheme) \o form.host,
            form.slash)

\* POST /admin/comfyui-url by the admin: the running process's setting is
\* replaced.
UpdateComfyuiUrl(form) ==
    /\ comfyui_url' = CleanUrl(form)
    /\ comfyui_url' # comfyui_url
    /\ UNCHANGED <<loop, flowVars, payVars, ledgerVars>>

\* A key that a JSON object does not have.
Missing == "MISSING"

\* What the backend answers to GET /queue and GET /history/<prompt_id>.
GetResponses == {"200", "not 200", "transport error"}

\* An entry of a node's "images" or "gifs" list.
OutputFile(name, sub) == [filename |-> name, subfolder |-> sub]

ImageFiles ==
    {OutputFile("selfie.png", sub) : sub \in {"sub", "", Missing}} \cup
    {OutputFile(Missing, "")}

GifFiles == {OutputFile("selfie.gif", sub) : sub \in {"sub", ""}}

\* The output of one node, and the "outputs" of a history entry in the
\* order the backend enumerates them.
NodeOutputs ==
    [images : {<<>>} \cup {<<f>> : f \in ImageFiles},
     gifs : {<<>>} \cup {<<f>> : f \in GifFiles}]

Outputs == UNION {[1..n -> NodeOutputs] : n \in 0..MaxNodes}

\* get_queue_status: the body of a 200, the empty snapshot otherwise.
EmptyQueue == [queue_pending |-> <<>>, queue_running |-> <<>>]

GetQueueStatus(resp, body) == IF resp = "200" THEN body ELSE EmptyQueue

\* for item in pending + running: len(item) > 1 and item[1] == prompt_id
InQueue(pid, snapshot) ==
    LET items == snapshot.queue_pending \o snapshot.queue_running IN
      \E i \in DOMAIN items : Len(items[i]) > 1 /\ items[i][2] = pid

IsPromptCompleteIn(pid, snapshot) == ~InQueue(pid, snapshot)

\* get_history: the body of a 200, None otherwise; present says whether the
\* body has the prompt id as a key ("not history or prompt_id not in
\* history" is ~present).
NoHistory == [present |-> FALSE, outputs |-> <<>>]

GetHistory(resp, body) == IF resp = "200" THEN body ELSE NoHistory

\* "if filename:" on img.get("filename").
Named(file) == file.filename \notin {Missing, ""}

\* FileUrl that ignores the subfolder.
FileUrl_SubfolderDropped(base, file) == <<base, "output", file.filename>>

\* The f-strings of get_generation_status, as the path's segments;
\* img.get("subfolder", "") is "" when the key is missing.
FileUrl(base, file) ==
    LET subfolder == IF file.subfolder = Missing THEN "" ELSE file.subfolder
    IN IF subfolder # ""
       THEN <<base, "output", subfolder, file.filename>>
       ELSE <<base, "output", file.filename>>

\* image_url = None
NoUrl == <<>>

\* NodeUrl that looks at the node's gifs before its images.
NodeUrl_GifsFirst(base, node) ==
    IF node.gifs # <<>> /\ Named(node.gifs[1])
    THEN FileUrl(base, node.gifs[1])
    ELSE IF node.images # <<>> /\ Named(node.images[1])
    THEN FileUrl(base, node.images[1])
    ELSE NoUrl

\* One pass of the loop over the outputs: the first image of the node, else
\* its first gif.
NodeUrl(base, node) ==
    IF node.images # <<>> /\ Named(node.images[1])
    THEN FileUrl(base, node.images[1])
    ELSE IF node.gifs # <<>> /\ Named(node.gifs[1])
    THEN FileUrl(base, node.gifs[1])
    ELSE NoUrl

RECURSIVE FirstUrl(_, _)
FirstUrl(base, outputs) ==
    IF outputs = <<>> THEN NoUrl
    ELSE IF NodeUrl(base, Head(outputs)) # NoUrl
    THEN NodeUrl(base, Head(outputs))
    ELSE FirstUrl(base, Tail(outputs))

NotCompleted == [completed |-> FALSE, image_url |-> NoUrl]

\* ResolveHistory that takes an absent history for a job without output.
ResolveHistory_AbsentIsNoOutput(base, hist) ==
    [completed |-> TRUE,
     image_url |-> IF hist.present THEN FirstUrl(base, hist.outputs) ELSE NoUrl]

\* get_generation_status from the history's result on.
ResolveHistory(base, hist) ==
    IF ~hist.present THEN NotCompleted
    ELSE [completed |-> TRUE, image_url |-> FirstUrl(base, hist.outputs)]

\* The state of a job as the ledger's model has it.
JobOf(pid, queueBody, histBody) ==
    IF InQueue(pid, queueBody) THEN "queued"
    ELSE IF ~histBody.present THEN "lagging"
    ELSE IF FirstUrl(BaseUrl, histBody.outputs) # NoUrl THEN "image"
    ELSE "empty"

\* The backend: the job waits behind another one, runs, leaves the queue,
\* and its history entry is written.
QueueWaiting ==
    [queue_pending |-> << <<1, PromptId>> >>,
     queue_running |-> << <<0, OtherId>> >>]

QueueRunning ==
    [queue_pending |-> <<>>, queue_running |-> << <<1, PromptId>> >>]

InitBackend ==
    /\ comfyQueue = QueueWaiting
    /\ comfyHistory = NoHistory

ComfyStart ==
    /\ comfyQueue = QueueWaiting
    /\ comfyQueue' = QueueRunning
    /\ UNCHANGED <<sideVars, now, promo, gateVars, orchVars, comfyHistory, poll>>

ComfyLeave ==
    /\ comfyQueue = QueueRunning
    /\ comfyQueue' = EmptyQueue
    /\ jobs' = [jobs EXCEPT ![1] = JobOf(PromptId, comfyQueue', comfyHistory)]
    /\ UNCHANGED <<sideVars, now, promo, gateVars, settings, generations, pending, paid,
                   gen, st, comfyHistory, poll>>

ComfyRecord(outputs) ==
    /\ comfyQueue = EmptyQueue
    /\ ~comfyHistory.present
    /\ comfyHistory' = [present |-> TRUE, outputs |-> outputs]
    /\ jobs' = [jobs EXCEPT ![1] = JobOf(PromptId, comfyQueue, comfyHistory')]
    /\ UNCHANGED <<sideVars, now, promo, gateVars, settings, generations, pending, paid,
                   gen, st, comfyQueue, poll>>

\* A call of get_generation_status(PromptId).  lagged records that some
\* call so far found the job out of the queue and no history for it.
IdlePoll ==
    [pc |-> "idle", n |-> 0, queueResp |-> Null, complete |-> FALSE,
     histResp |-> Null, result |-> NotCompleted, lagged |-> FALSE,
     base_url |-> Null, queue_url |-> Null, history_url |-> Null]

\* GET <url>/queue and GET <url>/history/<prompt_id> reach the backend at
\* that address.
QueueAt(url) == IF url = BaseUrl THEN comfyQueue ELSE EmptyQueue
HistoryAt(url) == IF url = BaseUrl THEN comfyHistory ELSE NoHistory

\* Up to the result of is_prompt_complete: not complete returns at once.
ResolverQueue(resp) ==
    /\ poll.pc \in {"idle", "done"}
    /\ poll.n < MaxPolls
    /\ LET base_url == GetComfyuiUrl(comfyui_url)
           queue_url == GetComfyuiUrl(comfyui_url)
           complete ==
             IsPromptCompleteIn(PromptId,
                                GetQueueStatus(resp, QueueAt(queue_url)))
       IN poll' = [pc |-> IF complete THEN "history" ELSE "done",
                   n |-> poll.n + 1, queueResp |-> resp,
                   complete |-> complete, histResp |-> Null,
                   result |-> NotCompleted, lagged |-> poll.lagged,
                   base_url |-> base_url, queue_url |-> queue_url,
                   history_url |-> Null]
    /\ UNCHANGED <<sideVars, now, promo, gateVars, orchVars, comfyQueue, comfyHistory>>

\* get_history and the scan of the outputs.
ResolverHistory(resp) ==
    /\ poll.pc = "history"
    /\ LET history_url == GetComfyuiUrl(comfyui_url)
           hist == GetHistory(resp, HistoryAt(history_url)) IN
         poll' = [poll EXCEPT
                    !.pc = "done", !.histResp = resp,
                    !.history_url = history_url,
                    !.result = ResolveHistory(poll.base_url, hist),
                    !.lagged = @ \/ (~hist.present
                                     /\ ~InQueue(PromptId, comfyQueue))]
    /\ UNCHANGED <<sideVars, now, promo, gateVars, orchVars, comfyQueue, comfyHistory>>

\* ------------------------------------------------------------ poll loops
\* range(timeout) of wait_for_completion and range(120) of generate_example.
HandlerTimeout == 300
AdminPolls == 120

HandlerLoop == "wait_for_completion"
AdminLoop == "generate_example"

Budget(kind) == IF kind = HandlerLoop THEN HandlerTimeout ELSE AdminPolls

\* What wait_for_completion returns; error and filename are Null when the
\* dict has no such key.
WaitResult(success, error, url, filename) ==
    [success |-> success, error |-> error, image_url |-> url,
     filename |-> filename]

NoResult == WaitResult(FALSE, Null, NoUrl, Null)

TimedOut == WaitResult(FALSE, "Generation timed out", NoUrl, Null)

\* The scan of wait_for_completion: the first node whose first image has a
\* filename; gifs are not looked at.
RECURSIVE FindOutputImage(_, _)
FindOutputImage(base, outputs) ==
    IF outputs = <<>>
    THEN WaitResult(FALSE, "No output image found", NoUrl, Null)
    ELSE LET node == Head(outputs) IN
           IF node.images # <<>> /\ Named(node.images[1])
           THEN WaitResult(TRUE, Null, FileUrl(base, node.images[1]),
                           node.images[1].filename)
           ELSE FindOutputImage(base, Tail(outputs))

\* A loop polling PromptId.  i counts the iterations begun, each of which
\* makes one check of the queue; queued says that the job was in the queue
\* snapshot of every check so far; saved that the admin loop wrote the
\* example's file.
IdleLoop ==
    [kind |-> Null, pc |-> "idle", i |-> 0, queued |-> TRUE,
     result |-> NoResult, saved |-> FALSE]

LoopStart(kind) ==
    /\ loop.pc = "idle"
    /\ loop' = [IdleLoop EXCEPT !.kind = kind, !.pc = "check"]
    /\ UNCHANGED <<comfyui_url, payVars, ledgerVars, flowVars>>

\* One iteration of either loop up to the result of is_prompt_complete:
\* when the job is in the snapshot the iteration ends (after its sleep).
LoopCheck(kind, resp) ==
    /\ loop.kind = kind
    /\ loop.pc = "check"
    /\ loop.i < Budget(kind)
    /\ LET complete ==
             IsPromptCompleteIn(PromptId, GetQueueStatus(resp, comfyQueue))
       IN loop' = [loop EXCEPT
                     !.i = @ + 1,
                     !.queued = @ /\ ~complete,
                     !.pc = IF complete THEN "history" ELSE "check"]
    /\ UNCHANGED <<comfyui_url, payVars, ledgerVars, flowVars>>

\* wait_for_completion: get_history and the scan; without an entry for the
\* job the iteration ends.
WaitHistory(resp) ==
    /\ loop.kind = HandlerLoop
    /\ loop.pc = "history"
    /\ LET history == GetHistory(resp, comfyHistory) IN
         loop' = IF history.present
                 THEN [loop EXCEPT
                         !.pc = "done",
                         !.result = FindOutputImage(BaseUrl, history.outputs)]
                 ELSE [loop EXCEPT !.pc = "check"]
    /\ UNCHANGED <<comfyui_url, payVars, ledgerVars, flowVars>>

\* WaitTimeout that reports a job without output.
WaitTimeout_NoOutput ==
    /\ loop.kind = HandlerLoop
    /\ loop.pc = "check"
    /\ loop.i = HandlerTimeout
    /\ loop' = [loop EXCEPT
                  !.pc = "done",
                  !.result = WaitResult(FALSE, "No output image found",
                                        NoUrl, Null)]
    /\ UNCHANGED <<comfyui_url, payVars, ledgerVars, flowVars>>

\* wait_for_completion after the last iteration.
WaitTimeout ==
    /\ loop.kind = HandlerLoop
    /\ loop.pc = "check"
    /\ loop.i = HandlerTimeout
    /\ loop' = [loop EXCEPT !.pc = "done", !.result = TimedOut]
    /\ UNCHANGED <<comfyui_url, payVars, ledgerVars, flowVars>>

\* generate_example: the rest of get_generation_status, and on completed
\* the download (when there is a URL) and the break.
ExampleStatus(resp, saveOk) ==
    /\ loop.kind = AdminLoop
    /\ loop.pc = "history"
    /\ LET status_result ==
             ResolveHistory(BaseUrl, GetHistory(resp, comfyHistory))
       IN loop' = IF status_result.completed
                  THEN [loop EXCEPT
                          !.pc = "done",
                          !.saved = status_result.image_url # NoUrl /\ saveOk]
                  ELSE [loop EXCEPT !.pc = "check"]
    /\ UNCHANGED <<comfyui_url, payVars, ledgerVars, flowVars>>

\* generate_example after the last iteration: the redirect.
ExampleEnd ==
    /\ loop.kind = AdminLoop
    /\ loop.pc = "check"
    /\ loop.i = AdminPolls
    /\ loop' = [loop EXCEPT !.pc = "done"]
    /\ UNCHANGED <<comfyui_url, payVars, ledgerVars, flowVars>>

\* ------------------------------------------------------------ the workflow
\* A workflow is a dict from node ids to nodes; a node is a dict with a
\* class_type and inputs.  An input the node does not have is Missing (a
\* string), None (a number) or NoSeed.  isdict is isinstance(node, dict);
\* value is the value of an entry that is no dict.
NoSeed == <<>>

Inputs(image, width, height, megapixels, text, noise_seed) ==
    [image |-> image, width |-> width, height |-> height,
     megapixels |-> megapixels, text |-> text, noise_seed |-> noise_seed]

NoInputs == Inputs(Missing, None, None, None, Missing, NoSeed)

Node(class_type, inputs) ==
    [isdict |-> TRUE, class_type |-> class_type, inputs |-> inputs,
     value |-> Missing]

\* The dict get_default_workflow returns when the file does not exist.
ErrorGraph ==
    "error" :> [isdict |-> FALSE, class_type |-> Missing, inputs |-> NoInputs,
                value |-> "No workflow configured. Please add workflows/genselfie.json"]

\* random.randint(0, 2**53 - 1): a seed is <<hi, lo>> and stands for
\* hi * 2^27 + lo with lo < 2^27, so that a seed below 2^53 has hi < 2^26.
SeedLimb == 134217728
SeedTop == 67108864

\* The smallest seeds and the largest one.
SeedDraws == {<<0, 0>>, <<0, 1>>, <<SeedTop - 1, SeedLimb - 1>>}

\* The seed a template's file holds.
FileSeed == <<0, 42>>

\* Node types.
SizedTypes ==
    {"EmptyLatentImage", "EmptySD3LatentImage", "EmptyImage",
     "EmptyFlux2LatentImage", "Flux2Scheduler"}

TextEncoders == {"CLIPTextEncode", "CLIPTextEncodeSDXL"}

LoadImage(name) ==
    Node("LoadImage", [NoInputs EXCEPT !.image = name])

Sized(class_type, width, height) ==
    Node(class_type, [NoInputs EXCEPT !.width = width, !.height = height])

ScaleToTotalPixels(mp) ==
    Node("ImageScaleToTotalPixels", [NoInputs EXCEPT !.megapixels = mp])

TextNode(class_type, text) ==
    Node(class_type, [NoInputs EXCEPT !.text = text])

RandomNoise(seed) ==
    Node("RandomNoise", [NoInputs EXCEPT !.noise_seed = seed])

\* Workflow files: the layout the functions' docstrings describe (node 25
\* the noise, 42 and 46 the images), a layout with a latent image and a
\* negative prompt, the noise node under another id, two noise nodes, and
\* an SDXL encoder (which has no "text" input) beside a node of another
\* type that has one.
TemplateGraphs ==
    { ("6" :> TextNode("CLIPTextEncode", "a selfie"))
        @@ ("25" :> RandomNoise(FileSeed))
        @@ ("42" :> LoadImage("influencer.png"))
        @@ ("46" :> LoadImage("fan.png"))
        @@ ("48" :> ScaleToTotalPixels(1000)),
      ("5" :> Sized("EmptyLatentImage", 512, 512))
        @@ ("6" :> TextNode("CLIPTextEncode", "a selfie"))
        @@ ("7" :> TextNode("CLIPTextEncode", "blurry"))
        @@ ("25" :> RandomNoise(FileSeed))
        @@ ("46" :> LoadImage("fan.png")),
      ("6" :> TextNode("CLIPTextEncode", "a selfie"))
        @@ ("30" :> RandomNoise(FileSeed))
        @@ ("46" :> LoadImage("fan.png"))
        @@ ("47" :> Sized("Flux2Scheduler", 1024, 1024)),
      ("25" :> RandomNoise(FileSeed))
        @@ ("26" :> RandomNoise(FileSeed))
        @@ ("42" :> LoadImage("influencer.png"))
        @@ ("46" :> LoadImage("fan.png")),
      ("6" :> Node("CLIPTextEncodeSDXL", NoInputs))
        @@ ("13" :> TextNode("ShowText", "caption"))
        @@ ("25" :> RandomNoise(FileSeed))
        @@ ("46" :> LoadImage("fan.png"))
        @@ ("48" :> ScaleToTotalPixels(1000)) }

\* The file: exists says whether workflow_path.exists().
NoTemplate == [exists |-> FALSE, graph |-> ErrorGraph]

Templates == {NoTemplate} \cup {[exists |-> TRUE, graph |-> g] : g \in TemplateGraphs}

\* The assignments of inject_images_into_workflow; "and influencer_image"
\* is false for None and for the empty string.
WithImages(g, fan_image, influencer_image) ==
    [id \in DOMAIN g |->
       IF id = "42" /\ influencer_image \notin {Null, ""}
       THEN [g[id] EXCEPT !.inputs.image = influencer_image]
       ELSE IF id = "46"
       THEN [g[id] EXCEPT !.inputs.image = fan_image]
       ELSE g[id]]

\* The assignment of set_random_seed.
WithSeed(g, seed) ==
    [id \in DOMAIN g |->
       IF id = "25" THEN [g[id] EXCEPT !.inputs.noise_seed = seed] ELSE g[id]]

\* round(x, 3) of x = n / 1_000_000.0, in thousandths; n is no odd multiple
\* of 500 for the dimensions drawn here.
Round3(n) == (n + 500) \div 1000

Max(a, b) == IF a >= b THEN a ELSE b
Min(a, b) == IF a <= b THEN a ELSE b

\* max(0.1, min(16.0, round((width * height) / 1_000_000.0, 3))), in
\* thousandths of a megapixel.
Megapixels_Unrounded(width, height) ==
    Max(100, Min(16000, (width * height) \div 1000))

Megapixels(width, height) ==
    Max(100, Min(16000, Round3(width * height)))

\* WithDimensions that sets the width of a sized node and leaves its height.
WithDimensions_WidthOnly(g, width, height) ==
    [id \in DOMAIN g |->
       IF g[id].isdict /\ g[id].class_type \in SizedTypes
          /\ g[id].inputs.width # None
       THEN [g[id] EXCEPT !.inputs.width = width]
       ELSE g[id]]

\* The loop of set_dimensions.
WithDimensions(g, width, height) ==
    [id \in DOMAIN g |->
       LET node == g[id] IN
         IF ~node.isdict THEN node
         ELSE LET sized ==
                    IF node.class_type \in SizedTypes
                    THEN [node.inputs EXCEPT
                            !.width = IF @ # None THEN width ELSE @,
                            !.height = IF @ # None THEN height ELSE @]
                    ELSE node.inputs
                  scaled ==
                    IF node.class_type = "ImageScaleToTotalPixels"
                    THEN [sized EXCEPT !.megapixels = Megapixels(width, height)]
                    ELSE sized
              IN [node EXCEPT !.inputs = scaled]]

\* WithPrompt that writes the text of every node that has one.
WithPrompt_EveryTextInput(g, prompt_text) ==
    [id \in DOMAIN g |->
       IF g[id].isdict /\ g[id].inputs.text # Missing
       THEN [g[id] EXCEPT !.inputs.text = prompt_text]
       ELSE g[id]]

\* The loop of set_prompt.
WithPrompt(g, prompt_text) ==
    [id \in DOMAIN g |->
       LET node == g[id] IN
         IF node.isdict /\ node.class_type \in TextEncoders
            /\ node.inputs.text # Missing
         THEN [node EXCEPT !.inputs.text = prompt_text]
         ELSE node]

\* A function that assigns into the dict it is given and returns it: the
\* heap after the call and the reference returned.
InPlace(h, ref, g) == [heap |-> [h EXCEPT ![ref] = g], ref |-> ref]

InjectImagesIntoWorkflow(h, ref, fan_image, influencer_image) ==
    InPlace(h, ref, WithImages(h[ref], fan_image, influencer_image))

SetRandomSeed(h, ref, seed) == InPlace(h, ref, WithSeed(h[ref], seed))

SetDimensions(h, ref, width, height) ==
    InPlace(h, ref, WithDimensions(h[ref], width, height))

SetPrompt(h, ref, prompt_text) ==
    InPlace(h, ref, WithPrompt(h[ref], prompt_text))

\* get_default_workflow that hands out one dict kept in memory.
GetDefaultWorkflow_Cached(h, file) ==
    IF h # <<>> THEN [heap |-> h, ref |-> 1]
    ELSE [heap |-> <<IF file.exists THEN file.graph ELSE ErrorGraph>>,
          ref |-> 1]

\* get_default_workflow: json.load builds a new dict on every call, and so
\* does the dict display of the error return.
GetDefaultWorkflow(h, file) ==
    [heap |-> Append(h, IF file.exists THEN file.graph ELSE ErrorGraph),
     ref |-> Len(h) + 1]

\* generate_selfie from "workflow = get_default_workflow()" to the call of
\* queue_prompt: no await in between.  "if width and height" and
\* "if prompt" are false for None, 0 and "".
BuildWorkflow(h, file, fan, infl, width, height, prompt, seed) ==
    LET loaded == GetDefaultWorkflow(h, file)
        injected == InjectImagesIntoWorkflow(loaded.heap, loaded.ref, fan, infl)
        sized == IF width \notin {None, 0} /\ height \notin {None, 0}
                 THEN SetDimensions(injected.heap, injected.ref, width, height)
                 ELSE injected
        prompted == IF prompt \notin {Null, ""}
                    THEN SetPrompt(sized.heap, sized.ref, prompt)
                    ELSE sized
    IN SetRandomSeed(prompted.heap, prompted.ref, seed)

\* Concurrent calls of generate_selfie.
MaxInst == 2
Insts == 1..MaxInst

\* fan_filename: local_path.name of the upload, or fan_<six digits>.png.
FanOf(j) == "fan_" \o ToString(j) \o ".png"
PromptOf(j) == "prompt " \o ToString(j)

\* Preset dimensions and the values a call of set_dimensions is given.
PresetSizes == {<<None, None>>, <<1024, 1024>>, <<512, 768>>}
Sizes ==
    {<<1024, 1024>>, <<512, 768>>, <<100, 100>>, <<316, 316>>,
     <<4000, 4001>>, <<8192, 8192>>}

IdleInst ==
    [pc |-> "idle", ref |-> 0, fan |-> Null, infl |-> Null, width |-> None,
     height |-> None, prompt |-> Null, seed |-> NoSeed, error |-> Null]

GenerateSelfieBuild(j, infl, size, prompt, seed) ==
    /\ inst[j].pc = "idle"
    /\ LET built == BuildWorkflow(heap, template, FanOf(j), infl, size[1],
                                  size[2], prompt, seed)
       IN /\ heap' = built.heap
          /\ inst' = [inst EXCEPT ![j] =
               [pc |-> "built", ref |-> built.ref, fan |-> FanOf(j),
                infl |-> infl, width |-> size[1], height |-> size[2],
                prompt |-> prompt, seed |-> seed, error |-> Null]]
    /\ UNCHANGED <<comfyui_url, payVars, ledgerVars, loop, template, submitted, mut>>

\* A row of presets as generate uses it, and "no preset" (preset_id not
\* given).
PresetRow(prompt, allow_prompt_edit, width, height) ==
    [exists |-> TRUE, prompt |-> prompt,
     allow_prompt_edit |-> allow_prompt_edit, width |-> width,
     height |-> height]

NoPreset ==
    [exists |-> FALSE, prompt |-> Null, allow_prompt_edit |-> FALSE,
     width |-> None, height |-> None]

Presets ==
    {NoPreset} \cup
    {PresetRow(prompt, edit, 1024, 1024) :
       prompt \in {"preset prompt", Null}, edit \in BOOLEAN}

\* "if not custom_prompt and pending_session.get('custom_prompt')": the
\* prompt stored with a pending session stands in for a missing one.
CustomPrompt(custom_prompt, stored_prompt) ==
    IF custom_prompt \in {Null, ""} /\ stored_prompt \notin {Null, ""}
    THEN stored_prompt
    ELSE custom_prompt

\* FinalPrompt that takes the caller's prompt whenever there is one.
FinalPrompt_CallerFirst(preset, custom_prompt) ==
    IF ~preset.exists THEN Null
    ELSE IF custom_prompt \notin {Null, ""} THEN custom_prompt
    ELSE preset.prompt

\* final_prompt of generate: the caller's prompt only when the preset
\* allows editing and a prompt was given, else the preset's; None without
\* a preset.
FinalPrompt(preset, custom_prompt) ==
    IF ~preset.exists THEN Null
    ELSE IF preset.allow_prompt_edit /\ custom_prompt \notin {Null, ""}
         THEN custom_prompt
    ELSE preset.prompt

\* generate from the choice of the prompt to the built workflow: the call
\* generate_selfie(width=preset.width if preset else None, ...,
\* prompt=final_prompt).  The request's preset and prompts are kept for the
\* record.
GenerateWithPreset(j, preset, custom_prompt, stored_prompt, seed) ==
    /\ inst[j].pc = "idle"
    /\ LET final_prompt ==
             FinalPrompt(preset, CustomPrompt(custom_prompt, stored_prompt))
           built == BuildWorkflow(heap, template, FanOf(j), "star.png",
                                  preset.width, preset.height, final_prompt,
                                  seed)
       IN /\ heap' = built.heap
          /\ inst' = [inst EXCEPT ![j] =
               [pc |-> "built", ref |-> built.ref, fan |-> FanOf(j),
                infl |-> "star.png", width |-> preset.width,
                height |-> preset.height, prompt |-> final_prompt,
                seed |-> seed, error |-> Null, preset |-> preset,
                custom_prompt |-> custom_prompt,
                stored_prompt |-> stored_prompt]]
    /\ UNCHANGED <<comfyui_url, payVars, ledgerVars, loop, template, submitted, mut>>

\* queue_prompt: POST {"prompt": workflow}; without a prompt id
\* generate_selfie raises.
GenerateSelfieQueue(j, resp) ==
    /\ inst[j].pc = "built"
    /\ submitted' = Append(submitted, [job |-> j, graph |-> heap[inst[j].ref]])
    /\ inst' = [inst EXCEPT ![j] =
         IF QueuePrompt(resp) THEN [@ EXCEPT !.pc = "queued"]
         ELSE [@ EXCEPT !.pc = "failed",
                        !.error = "Failed to queue prompt on ComfyUI"]]
    /\ UNCHANGED <<comfyui_url, payVars, ledgerVars, loop, template, heap, mut>>

\* A direct call of one mutation function on the dict at reference 1:
\* before is the dict as it was passed, ret the reference returned.
Args(fan, infl, width, height, text, seed) ==
    [fan |-> fan, infl |-> infl, width |-> width, height |-> height,
     text |-> text, seed |-> seed]

NoArgs == Args(Null, Null, None, None, Null, NoSeed)

NoCall ==
    [fn |-> Null, arg |-> 0, before |-> ErrorGraph, ret |-> 0, args |-> NoArgs]

CallRecord(fn, result, args) ==
    [fn |-> fn, arg |-> 1, before |-> heap[1], ret |-> result.ref,
     args |-> args]

CallInjectImages(fan, infl) ==
    /\ LET result == InjectImagesIntoWorkflow(heap, 1, fan, infl) IN
         /\ heap' = result.heap
         /\ mut' = CallRecord("inject_images_into_workflow", result,
                              [NoArgs EXCEPT !.fan = fan, !.infl = infl])
    /\ UNCHANGED <<comfyui_url, payVars, ledgerVars, loop, template, inst, submitted>>

CallSetDimensions(width, height) ==
    /\ LET result == SetDimensions(heap, 1, width, height) IN
         /\ heap' = result.heap
         /\ mut' = CallRecord("set_dimensions", result,
                              [NoArgs EXCEPT !.width = width, !.height = height])
    /\ UNCHANGED <<comfyui_url, payVars, ledgerVars, loop, template, inst, submitted>>

CallSetPrompt(text) ==
    /\ LET result == SetPrompt(heap, 1, text) IN
         /\ heap' = result.heap
         /\ mut' = CallRecord("set_prompt", result, [NoArgs EXCEPT !.text = text])
    /\ UNCHANGED <<comfyui_url, payVars, ledgerVars, loop, template, inst, submitted>>

CallSetRandomSeed(seed) ==
    /\ LET result == SetRandomSeed(heap, 1, seed) IN
         /\ heap' = result.heap
         /\ mut' = CallRecord("set_random_seed", result,
                              [NoArgs EXCEPT !.seed = seed])
    /\ UNCHANGED <<comfyui_url, payVars, ledgerVars, loop, template, inst, submitted>>

\* Outside the workflow's specifications nothing is loaded or called.
InitFlow ==
    /\ template = NoTemplate
    /\ heap = <<>>
    /\ inst = [j \in Insts |-> IdleInst]
    /\ submitted = <<>>
    /\ mut = NoCall

InitSide ==
    /\ comfyui_url = DefaultSetting
    /\ loop = IdleLoop
    /\ InitFlow
    /\ lookup = NoLookup

\* ------------------------------------------------------- specifications
\* Requests are interchangeable: a new request takes the lowest idle slot.
FirstIdle(reqs) ==
    {r \in DOMAIN reqs :
        reqs[r].pc = "idle" /\ \A q \in DOMAIN reqs : q < r => reqs[q].pc # "idle"}

\* The tables as init_db and the admin leave them, the promo code PROMO in
\* one of the given states.
InitWith(rows, settingsRows, sessions, paidRefs) ==
    /\ now = 1
    /\ InitBackend
    /\ poll = IdlePoll
    /\ InitSide
    /\ \E r \in rows :
         promo = [c \in Codes |->
                    IF c = "PROMO" THEN r
                    ELSE IF c \in AdminCodes THEN PromoRow(TRUE, 1, 1, None)
                    ELSE NoRow]
    /\ call = [c \in Callers |-> IdleCall]
    /\ validated = NoPreview
    /\ settings \in settingsRows
    /\ generations = <<>>
    /\ \E session \in sessions :
         pending = [p \in PendingIds |->
                      IF p = "p1" THEN session ELSE "absent"]
    /\ issued = {p \in PendingIds : pending[p] # "absent"}
    /\ paid = paidRefs
    /\ jobs = <<>>
    /\ gen = [g \in GenReqs |-> IdleGen]
    /\ st = [s \in StatusReqs |-> IdleStatus]

GenSteps ==
    \/ \E g \in GenReqs : GenConsume(g)
    \/ \E g \in GenReqs, influencers \in BOOLEAN : GenCreate(g, influencers)
    \/ \E g \in GenReqs, fanResp, inflResp \in UploadResponses,
          queueResp \in QueueResponses :
         GenSubmit(g, UploadImage(fanResp), UploadImage(inflResp),
                   QueuePrompt(queueResp))

\* The service: generate requests that carry an image and a code or a paid
\* reference, status requests, and the backend.
ServiceForms ==
    [method : {"code"}, code : {"PROMO"} \cup RetryTokens,
     payment_id : {Null}, image : {TRUE}] \cup
    [method : {"stripe"}, code : {Null}, payment_id : PaymentIds,
     image : {TRUE}]

Init ==
    InitWith({PromoRow(TRUE, None, None, None), PromoRow(TRUE, 1, 1, None)},
             [codes_enabled : {TRUE}, failsafe_enabled : BOOLEAN],
             {"absent"}, PaymentIds)

Next ==
    \/ \E g \in FirstIdle(gen), form \in ServiceForms,
          outcome \in {"paid", "error"} :
         GenStart(g, form, Null, TRUE, outcome)
    \/ GenSteps
    \/ \E s \in FirstIdle(st), gid \in GenReqs : StatusRead(s, gid)
    \/ \E s \in StatusReqs, queueOk, histOk, fetchOk \in BOOLEAN :
         StatusResolve(s, queueOk, histOk, fetchOk)
    \/ \E s \in StatusReqs : StatusRecordRetry(s)
    \/ \E j \in GenReqs, out \in {"image", "empty"} : BackendFinish(j, out)

Spec == Init /\ [][Next]_vars

\* The authorization of generate: every form of request, against codes in
\* every kind of state and payments that are paid or not.
InitAuth ==
    InitWith({PromoRow(TRUE, None, None, None), PromoRow(TRUE, 1, 1, None),
              PromoRow(TRUE, 0, 1, None), PromoRow(TRUE, 1, 1, 0),
              PromoRow(FALSE, 1, 1, None), NoRow},
             [codes_enabled : BOOLEAN, failsafe_enabled : {TRUE}],
             {"absent", "image", "noimage"}, {})

NextAuth ==
    \/ \E g \in FirstIdle(gen), form \in GenForms,
          pid \in {Null, "p1"}, presetOk \in BOOLEAN,
          outcome \in {"paid", "unpaid", "error"} :
         GenStart(g, form, pid, presetOk, outcome)
    \/ GenSteps
    \/ \E p \in PaymentIds : ProviderPays(p)

SpecAuth == InitAuth /\ [][NextAuth]_vars

\* ------------------------------------------------ the gate's specification
\* The states a promo_codes row can hold.
PromoStates ==
    {NoRow} \cup
    { PromoRow(a, u, m, e) :
        a \in BOOLEAN, u \in {None} \cup (0..MaxUses),
        m \in {None, MaxUses}, e \in {None} \cup Times }

WellFormedRow(r) ==
    r.exists => ((r.uses_remaining = None) <=> (r.max_uses = None))

InitGate ==
    /\ now \in Times
    /\ InitBackend
    /\ poll = IdlePoll
    /\ InitSide
    /\ \E r \in {x \in PromoStates : WellFormedRow(x)} :
         promo = [c \in Codes |->
                    IF c = "PROMO" THEN r
                    ELSE IF c \in AdminCodes THEN PromoRow(TRUE, 1, 1, None)
                    ELSE NoRow]
    /\ call = [c \in Callers |-> IdleCall]
    /\ validated = NoPreview
    /\ settings = [codes_enabled |-> TRUE, failsafe_enabled |-> TRUE]
    /\ generations = <<>>
    /\ pending = [p \in PendingIds |-> "absent"]
    /\ issued = {}
    /\ paid = {}
    /\ jobs = <<>>
    /\ gen = [g \in GenReqs |-> IdleGen]
    /\ st = [s \in StatusReqs |-> IdleStatus]

NextGate ==
    \/ Tick
    \/ \E c \in Callers, code \in AdminCodes : ConsumeRead(c, code)
    \/ \E c \in Callers : ConsumeFinish(c)
    \/ \E code \in AdminCodes : ValidateCode(code)
    \/ \E code \in AdminCodes : GetCodeInfo(code)

SpecGate == InitGate /\ [][NextGate]_vars

\* ------------------------------------------- redeeming a compensation token
\* The ledger after one generate request was authorized with PROMO and
\* submitted: row 1 is processing and its job is queued.  From here on the
\* generate requests present retry tokens.
SubmittedRow ==
    [NewGeneration("code", "PROMO", Null) EXCEPT
        !.status = "processing", !.prompt_id = 1]

RetryForms ==
    [method : {"code"}, code : RetryTokens, payment_id : {Null}, image : {TRUE}]

InitRetry ==
    /\ now = 1
    /\ InitBackend
    /\ poll = IdlePoll
    /\ InitSide
    /\ promo = [c \in Codes |->
                  IF c = "PROMO" THEN PromoRow(TRUE, None, None, None)
                  ELSE IF c \in AdminCodes THEN PromoRow(TRUE, 1, 1, None)
                  ELSE NoRow]
    /\ call = [c \in Callers |-> IdleCall]
    /\ validated = NoPreview
    /\ settings = [codes_enabled |-> TRUE, failsafe_enabled |-> TRUE]
    /\ generations = <<SubmittedRow>>
    /\ pending = [p \in PendingIds |-> "absent"]
    /\ issued = {}
    /\ paid = {}
    /\ jobs = <<"queued">>
    /\ gen = [g \in GenReqs |-> IdleGen]
    /\ st = [s \in StatusReqs |-> IdleStatus]

NextRetry ==
    \/ \E g \in FirstIdle(gen), form \in RetryForms :
         GenStart(g, form, Null, TRUE, "error")
    \/ GenSteps
    \/ \E s \in FirstIdle(st), gid \in GenReqs : StatusRead(s, gid)
    \/ \E s \in StatusReqs, queueOk, histOk, fetchOk \in BOOLEAN :
         StatusResolve(s, queueOk, histOk, fetchOk)
    \/ \E s \in StatusReqs : StatusRecordRetry(s)
    \/ \E j \in DOMAIN jobs, out \in {"image", "empty"} : BackendFinish(j, out)

SpecRetry == InitRetry /\ [][NextRetry]_vars

\* ------------------------------------------------ resolving a submitted job
\* Row 1 is processing and its job is PromptId, in the backend's queue; the
\* resolver is called directly and by status requests, while the backend
\* runs the job.  jobs[1] follows the backend's queue and history.
InitResolver ==
    /\ now = 1
    /\ InitBackend
    /\ poll = IdlePoll
    /\ InitSide
    /\ promo = [c \in Codes |->
                  IF c = "PROMO" THEN PromoRow(TRUE, None, None, None)
                  ELSE IF c \in AdminCodes THEN PromoRow(TRUE, 1, 1, None)
                  ELSE NoRow]
    /\ call = [c \in Callers |-> IdleCall]
    /\ validated = NoPreview
    /\ settings = [codes_enabled |-> TRUE, failsafe_enabled |-> TRUE]
    /\ generations = <<SubmittedRow>>
    /\ pending = [p \in PendingIds |-> "absent"]
    /\ issued = {}
    /\ paid = {}
    /\ jobs = <<JobOf(PromptId, QueueWaiting, NoHistory)>>
    /\ gen = [g \in GenReqs |-> IdleGen]
    /\ st = [s \in StatusReqs |-> IdleStatus]

NextResolver ==
    \/ ComfyStart
    \/ ComfyLeave
    \/ \E outputs \in Outputs : ComfyRecord(outputs)
    \/ \E resp \in GetResponses : ResolverQueue(resp)
    \/ \E resp \in GetResponses : ResolverHistory(resp)
    \/ StatusRead(1, 1)
    \/ \E queueOk, histOk, fetchOk \in BOOLEAN :
         StatusResolve(1, queueOk, histOk, fetchOk)
    \/ StatusRecordRetry(1)

SpecResolver == InitResolver /\ [][NextResolver]_vars

\* -------------------------------------------------- the workflow's functions
\* The ledger at rest.
InitQuiet ==
    /\ now = 0
    /\ InitBackend
    /\ poll = IdlePoll
    /\ loop = IdleLoop
    /\ lookup = NoLookup
    /\ comfyui_url = DefaultSetting
    /\ promo = [c \in Codes |-> NoRow]
    /\ call = [c \in Callers |-> IdleCall]
    /\ validated = NoPreview
    /\ settings = [codes_enabled |-> TRUE, failsafe_enabled |-> TRUE]
    /\ generations = <<>>
    /\ pending = [p \in PendingIds |-> "absent"]
    /\ issued = {}
    /\ paid = {}
    /\ jobs = <<>>
    /\ gen = [g \in GenReqs |-> IdleGen]
    /\ st = [s \in StatusReqs |-> IdleStatus]

\* A workflow has been loaded from one of the files and the mutation
\* functions are called on it, in any order and with any arguments.
InitMutators ==
    /\ InitQuiet
    /\ template \in Templates
    /\ template.exists
    /\ heap = <<template.graph>>
    /\ inst = [j \in Insts |-> IdleInst]
    /\ submitted = <<>>
    /\ mut = NoCall

NextMutators ==
    \/ \E j \in Insts, infl \in {"star.png", "", Null} :
         CallInjectImages(FanOf(j), infl)
    \/ \E size \in Sizes : CallSetDimensions(size[1], size[2])
    \/ \E j \in Insts : CallSetPrompt(PromptOf(j))
    \/ \E seed \in SeedDraws : CallSetRandomSeed(seed)

SpecMutators == InitMutators /\ [][NextMutators]_vars

\* Calls of generate_selfie, concurrently, with the file present or not.
InitInstantiate ==
    /\ InitQuiet
    /\ template \in Templates
    /\ heap = <<>>
    /\ inst = [j \in Insts |-> IdleInst]
    /\ submitted = <<>>
    /\ mut = NoCall

NextInstantiate ==
    \/ \E j \in Insts, infl \in {"star.png", Null}, size \in PresetSizes,
          seed \in SeedDraws :
         \E prompt \in {PromptOf(j), Null} :
           GenerateSelfieBuild(j, infl, size, prompt, seed)
    \/ \E j \in Insts, resp \in QueueResponses : GenerateSelfieQueue(j, resp)

SpecInstantiate == InitInstantiate /\ [][NextInstantiate]_vars

\* generate requests with a preset or none and a prompt of their own or
\* none, from the choice of the prompt to the POST of the workflow.
InitPrompt ==
    /\ InitQuiet
    /\ template \in Templates
    /\ heap = <<>>
    /\ inst = [j \in Insts |-> IdleInst]
    /\ submitted = <<>>
    /\ mut = NoCall

NextPrompt ==
    \/ \E j \in Insts, preset \in Presets,
          stored_prompt \in {Null, "stored prompt"} :
         \E custom_prompt \in {Null, "", PromptOf(j)} :
           GenerateWithPreset(j, preset, custom_prompt, stored_prompt,
                              <<0, 1>>)
    \/ \E j \in Insts, resp \in QueueResponses : GenerateSelfieQueue(j, resp)

SpecPrompt == InitPrompt /\ [][NextPrompt]_vars

\* ------------------------------------------------ the pending sessions
\* Checkouts are started, the page looks its pending session up after the
\* redirect, and generate requests come with a pending id, while the
\* provider records the payment.
PendingForms ==
    [method : {"stripe"}, code : {Null}, payment_id : PaymentIds,
     image : BOOLEAN]

NextPending ==
    \/ \E payment_type \in {"stripe", "lightning"},
          presetOk, stripe_enabled \in BOOLEAN, stored \in {"image", "noimage"} :
         CreatePayment(payment_type, presetOk, stripe_enabled, stored)
    \/ \E pending_id \in PendingIds, fileExists \in BOOLEAN :
         GetPendingSession(pending_id, fileExists)
    \/ \E g \in FirstIdle(gen), form \in PendingForms,
          pid \in {Null} \cup PendingIds, outcome \in {"paid", "unpaid"} :
         GenStart(g, form, pid, TRUE, outcome)
    \/ \E p \in PaymentIds : ProviderPays(p)

\* No workflow is being built while the checkouts run.
InitPending ==
    /\ InitQuiet
    /\ template = NoTemplate
    /\ heap = <<>>
    /\ inst = [j \in Insts |-> IdleInst]
    /\ submitted = <<>>
    /\ mut = NoCall

SpecPending == InitPending /\ [][NextPending]_vars

\* ------------------------------------------- a row that is polled for ever
\* Row 1 is processing and its job is queued; the job may stay queued, leave
\* the queue without a history entry, or finish.  The client repeats its
\* status request for ever, and every request is served to its end.
InitStuck ==
    /\ now = 1
    /\ InitBackend
    /\ poll = IdlePoll
    /\ InitSide
    /\ promo = [c \in Codes |->
                  IF c = "PROMO" THEN PromoRow(TRUE, None, None, None)
                  ELSE NoRow]
    /\ call = [c \in Callers |-> IdleCall]
    /\ validated = NoPreview
    /\ settings \in [codes_enabled : {TRUE}, failsafe_enabled : BOOLEAN]
    /\ generations = <<SubmittedRow>>
    /\ pending = [p \in PendingIds |-> "absent"]
    /\ issued = {}
    /\ paid = {}
    /\ jobs = <<"queued">>
    /\ gen = [g \in GenReqs |-> IdleGen]
    /\ st = [s \in StatusReqs |-> IdleStatus]

StatusSteps ==
    \/ \E s \in FirstIdle(st) : StatusRead(s, 1)
    \/ \E s \in StatusReqs, queueOk, histOk, fetchOk \in BOOLEAN :
         StatusResolve(s, queueOk, histOk, fetchOk)
    \/ \E s \in StatusReqs : StatusRecordRetry(s)
    \/ \E s \in StatusReqs : StatusAgain(s)

NextStuck ==
    \/ StatusSteps
    \/ \E out \in {"lagging", "image", "empty"} : BackendFinish(1, out)

SpecStuck == InitStuck /\ [][NextStuck]_vars /\ WF_vars(StatusSteps)

\* ------------------------------------------------------------ a poll loop
\* Row 1's job is PromptId; a poll loop waits for it while the backend
\* runs it.
LoopOutputs == {outputs \in Outputs : Len(outputs) <= 1}

\* The resolver is called for row 1's job while the admin changes the
\* backend's address.
NextUrl ==
    \/ ComfyStart
    \/ ComfyLeave
    \/ \E outputs \in LoopOutputs : ComfyRecord(outputs)
    \/ \E resp \in GetResponses : ResolverQueue(resp)
    \/ \E resp \in GetResponses : ResolverHistory(resp)
    \/ \E form \in UrlForms : UpdateComfyuiUrl(form)

SpecUrl == InitResolver /\ [][NextUrl]_vars

\* Repeated status checks.
\* Row 1 is processing; the client repeats its status request, two may
\* overlap, while the backend runs the job, drops it from the queue and
\* writes its history.
NextResume ==
    \/ ComfyStart
    \/ ComfyLeave
    \/ \E outputs \in LoopOutputs : ComfyRecord(outputs)
    \/ StatusSteps

SpecResume == InitResolver /\ [][NextResume]_vars

LoopSteps ==
    \/ \E kind \in {HandlerLoop, AdminLoop}, resp \in GetResponses :
         LoopCheck(kind, resp)
    \/ \E resp \in GetResponses : WaitHistory(resp)
    \/ WaitTimeout
    \/ \E resp \in GetResponses, saveOk \in BOOLEAN : ExampleStatus(resp, saveOk)
    \/ ExampleEnd

NextLoop ==
    \/ ComfyStart
    \/ ComfyLeave
    \/ \E outputs \in LoopOutputs : ComfyRecord(outputs)
    \/ \E kind \in {HandlerLoop, AdminLoop} : LoopStart(kind)
    \/ LoopSteps

\* Every request of a loop has a timeout (10 s, 60 s for the download) and
\* its sleep lasts a second, so a loop that can take a step takes it.
SpecLoop == InitResolver /\ [][NextLoop]_vars /\ WF_vars(LoopSteps)


\* The ledger's model of the resolver agrees with the resolver run on the
\* backend's bodies, for every pair of responses.
AbstractionAgrees ==
    /\ jobs[1] = JobOf(PromptId, comfyQueue, comfyHistory)
    /\ \A queueResp, histResp \in GetResponses :
         LET abstract == GetGenerationStatus(1, jobs[1], queueResp = "200",
                                             histResp = "200")
             complete == IsPromptCompleteIn(PromptId,
                             GetQueueStatus(queueResp, comfyQueue))
             detailed == IF complete
                         THEN ResolveHistory(BaseUrl,
                                  GetHistory(histResp, comfyHistory))
                         ELSE NotCompleted
         IN /\ abstract.completed = detailed.completed
            /\ (abstract.image_url = None) = (detailed.image_url = NoUrl)

\* ------------------------------------------------------------------ claims
Terminal == {"completed", "failed"}

LegalMoves ==
    {<<"pending", "processing">>, <<"pending", "failed">>,
     <<"processing", "completed">>, <<"processing", "failed">>}

\* C1: every change of a ledger row's status is one of pending->processing,
\* pending->failed, processing->completed, processing->failed; a completed
\* or failed row never changes status again.
C1_StatusOnlyMovesForward ==
    [][\A i \in DOMAIN generations :
         generations'[i].status # generations[i].status =>
           <<generations[i].status, generations'[i].status>> \in LegalMoves]_vars

\* C2: two calls of validate_and_consume_code that both ran on the same
\* active, unexpired code while its uses_remaining was 1 (each loaded the
\* value 1): exactly one succeeds, the other is rejected as fully used.
LoadedLastUse(c) ==
    /\ call[c].pc = "done"
    /\ call[c].snap.exists
    /\ call[c].snap.uses_remaining = 1
    /\ call[c].snap.expires_at = None

C2_LastUseGoesToOneCaller ==
    \A c1, c2 \in Callers :
      (c1 # c2 /\ LoadedLastUse(c1) /\ LoadedLastUse(c2)
       /\ call[c1].code = call[c2].code) =>
        \/ call[c1].error = "" /\ call[c2].error = "This code has been fully used"
        \/ call[c2].error = "" /\ call[c1].error = "This code has been fully used"

\* C3: for every ledger row at most one status request ever mints a token,
\* and the row's retry_code is written only while the row is failed, the
\* failsafe is enabled and the row holds no code yet (so at most once).
C3_CompensationAtMostOnce ==
    [][/\ \A s \in StatusReqs :
            (st[s].token = Null /\ st'[s].token # Null) =>
              \A q \in StatusReqs \ {s} :
                ~(st[q].gid = st'[s].gid /\ st[q].token # Null)
       /\ \A i \in DOMAIN generations :
            generations'[i].retry_code # generations[i].retry_code =>
              /\ generations[i].retry_code = Null
              /\ generations[i].status = "failed"
              /\ settings.failsafe_enabled]_vars
\* C4: a status request on a row that is already completed or failed
\* answers from the row and does nothing else: no backend query, no
\* download, no token, no write; its answer is the row's status with the
\* row's result_url (completed) or retry_code (failed), so asking again
\* gives the same answer.
C4_TerminalStatusRequestIsPure ==
    [][\A s \in StatusReqs :
         (/\ st[s].pc = "idle"
          /\ st'[s].pc # "idle"
          /\ st'[s].gid \in DOMAIN generations
          /\ generations[st'[s].gid].status \in Terminal) =>
           LET row == generations[st'[s].gid] IN
             /\ st'[s].pc = "done"
             /\ generations' = generations
             /\ promo' = promo
             /\ jobs' = jobs
             /\ ~st'[s].queried
             /\ ~st'[s].downloaded
             /\ st'[s].token = Null
             /\ st'[s].commits = 0
             /\ st'[s].resp.status = row.status
             /\ row.status = "completed" =>
                  st'[s].resp.result_url = row.result_image_url
             /\ row.status = "failed" =>
                  st'[s].resp.retry_code = row.retry_code]_vars

\* A status request answered a failed row that holds a retry code.
C4_Witness ==
    \E s \in StatusReqs :
      /\ st[s].pc = "done"
      /\ st[s].seen = "failed"
      /\ st[s].resp.retry_code # Null
      /\ st[s].commits = 0

\* The usability predicate, with the expiry as the spec has it (now <
\* expires_at) and as the checks have it (now <= expires_at).
UsableBefore(row, t) ==
    /\ row.exists
    /\ row.is_active
    /\ (row.uses_remaining = None \/ row.uses_remaining > 0)
    /\ (row.expires_at = None \/ t < row.expires_at)

UsableUpTo(row, t) ==
    /\ row.exists
    /\ row.is_active
    /\ (row.uses_remaining = None \/ row.uses_remaining > 0)
    /\ (row.expires_at = None \/ t <= row.expires_at)

\* The admission decisions taken in this step: <<row read, time, accepted>>
\* for a validate_and_consume_code that returns and for a preview.
Decisions ==
    { <<call[c].stored, now, call'[c].error = "">> :
        c \in {x \in Callers : call[x].pc = "loaded" /\ call'[x].pc = "done"} }
    \cup
    { <<promo[validated'.code], now, validated'.error = "">> :
        x \in {y \in {1} : validated'.n # validated.n} }

\* C5 as stated: a code is accepted iff is_active and (uses_remaining is
\* null or > 0) and (expires_at is null or now < expires_at).
C5_AcceptedIffUsableBeforeExpiry ==
    [][\A d \in Decisions : d[3] <=> UsableBefore(d[1], d[2])]_vars

\* C5 amended: a code is accepted iff the row read is active and
\* (uses_remaining is null or > 0) and (expires_at is null or now <=
\* expires_at): at now = expires_at it is still accepted.
C5_AcceptedIffUsableUpToExpiry ==
    [][\A d \in Decisions : d[3] <=> UsableUpTo(d[1], d[2])]_vars

\* A consume and a preview both accepted a code at the instant it expires.
C5_Witness ==
    /\ \E c \in Callers :
         /\ call[c].pc = "done"
         /\ call[c].error = ""
         /\ call[c].stored.expires_at = call[c].at
    /\ validated.n > 0
    /\ validated.error = ""
    /\ promo[validated.code].expires_at = validated.at

\* C6: a code whose expires_at is in the past is rejected by the previews
\* and by validate_and_consume_code whatever its uses_remaining, and
\* nothing is decremented.
C6_ExpiredCodeRejected ==
    [][/\ \A c \in Callers :
            (/\ call[c].pc = "loaded"
             /\ call'[c].pc = "done"
             /\ call[c].stored.exists
             /\ call[c].stored.expires_at # None
             /\ call[c].stored.expires_at < now) =>
              call'[c].error # "" /\ promo' = promo
       /\ (/\ validated'.n # validated.n
           /\ promo[validated'.code].exists
           /\ promo[validated'.code].expires_at # None
           /\ promo[validated'.code].expires_at < now) =>
             validated'.error # "" /\ promo' = promo]_vars

\* An active code with uses left was refused as expired, by a consume and by
\* a preview.
C6_Witness ==
    /\ \E c \in Callers :
         /\ call[c].pc = "done"
         /\ call[c].stored.is_active
         /\ call[c].stored.uses_remaining > 0
         /\ call[c].stored.expires_at # None
         /\ call[c].stored.expires_at < call[c].at
         /\ call[c].error = "This code has expired"
    /\ validated.error \in {"Code has expired", "Code expired"}

\* C7: a validation preview changes no promo code.
C7_PreviewChangesNoCode ==
    [][validated'.n # validated.n => promo' = promo]_vars

\* Two previews have found a code with one use left valid.
C7_Witness ==
    /\ validated.n >= 2
    /\ validated.error = ""
    /\ promo[validated.code].uses_remaining = 1

\* C8: a generate request that passed the authorization has created a
\* ledger row by the time it returns.
C8_AuthorizedRequestHasRow ==
    \A g \in GenReqs :
      (gen[g].pc = "done" /\ gen[g].authorized) => gen[g].gid # None

\* The ledger rows that record a payment reference or a code.
RowsPaidBy(p) == {i \in DOMAIN generations : generations[i].payment_id = p}
RowsUsing(c) == {i \in DOMAIN generations : generations[i].promo_code_used = c}

\* C9: at most one ledger row per verified payment reference, and for a
\* finite code no more rows than uses consumed (max_uses - uses_remaining).
C9_OneGenerationPerUnit ==
    /\ \A p \in PaymentIds : Cardinality(RowsPaidBy(p)) <= 1
    /\ \A c \in Codes :
         (promo[c].exists /\ promo[c].uses_remaining # None) =>
           Cardinality(RowsUsing(c)) <= promo[c].max_uses - promo[c].uses_remaining

\* What generate answers when the authorization is denied.
DenialDetails ==
    {"Invalid promo code", "This code has been fully used",
     "This code has expired", "Payment not completed"}

\* C10: a denied authorization ends the request with a 400 in the step that
\* denies it, with no ledger row, no submission, no change to a code and no
\* token; a payment reported unpaid and a verification error are answered
\* alike and never authorize.
C10_DenialHasNoEffect ==
    [][\A g \in GenReqs :
         /\ (gen[g].pc # "done" /\ gen'[g].pc = "done"
             /\ gen'[g].detail \in DenialDetails) =>
              /\ generations' = generations
              /\ jobs' = jobs
              /\ promo' = promo
              /\ gen'[g].http = 400
              /\ gen'[g].gid = None
              /\ gen'[g].selfie = Null
              /\ ~gen'[g].authorized
         /\ gen'[g].verify \in {"unpaid", "error"} =>
              /\ gen'[g].pc = "done"
              /\ gen'[g].detail = "Payment not completed"
              /\ ~gen'[g].authorized]_vars

\* One request was refused for an unpaid payment, another for a verification
\* error, and no ledger row exists.
C10_Witness ==
    \E g1, g2 \in GenReqs :
      /\ gen[g1].pc = "done" /\ gen[g1].verify = "unpaid"
      /\ gen[g2].pc = "done" /\ gen[g2].verify = "error"
      /\ generations = <<>>

\* The code a ledger row was authorized with is an unlimited-use code.
ByUnlimitedCode(row) ==
    /\ row.payment_method = "code"
    /\ row.promo_code_used \in Codes
    /\ promo[row.promo_code_used].exists
    /\ promo[row.promo_code_used].uses_remaining = None

\* C11: on the path where every stage succeeds, a generate request
\* authorized with an unlimited-use code inserts its ledger row as pending
\* (no job id, no result); the submission that succeeds makes the row
\* processing with a non-null prompt_id that names a backend job; a status
\* check that finds the job finished with an image output and stores it
\* makes the row completed with a non-null result_image_url and answers
\* completed with that URL; the unlimited code's uses_remaining stays null.
C11_EndToEndSuccess ==
    [][/\ \A g \in GenReqs :
            (gen[g].pc = "authorized" /\ gen'[g].pc = "created") =>
              LET row == generations'[gen'[g].gid] IN
                /\ Len(generations') = Len(generations) + 1
                /\ gen'[g].gid = Len(generations')
                /\ row.status = "pending"
                /\ row.prompt_id = None
                /\ row.result_image_url = None
                /\ row.promo_code_used = gen[g].code
       /\ \A g \in GenReqs :
            (gen[g].pc = "created" /\ gen'[g].selfie = "submitted"
             /\ ByUnlimitedCode(generations[gen[g].gid])) =>
              LET row == generations'[gen[g].gid] IN
                /\ generations[gen[g].gid].status = "pending"
                /\ row.status = "processing"
                /\ row.prompt_id # None
                /\ row.prompt_id \in DOMAIN jobs'
                /\ gen'[g].http = 200
       /\ \A s \in StatusReqs :
            (st[s].pc = "polling" /\ st'[s].downloaded
             /\ ByUnlimitedCode(generations[st[s].gid])) =>
              LET row == generations'[st[s].gid] IN
                /\ jobs[st[s].snap.prompt_id] = "image"
                /\ row.status = "completed"
                /\ row.result_image_url # None
                /\ st'[s].resp = Respond("completed", row.result_image_url, Null)
       /\ \A c \in Codes :
            (promo[c].exists /\ promo[c].uses_remaining = None) =>
              promo'[c] = promo[c]]_vars

\* A row authorized with the unlimited code PROMO is completed, with a job
\* id and a stored result, and PROMO is still unlimited.
C11_Witness ==
    \E i \in DOMAIN generations :
      /\ generations[i].promo_code_used = "PROMO"
      /\ ByUnlimitedCode(generations[i])
      /\ generations[i].status = "completed"
      /\ generations[i].prompt_id # None
      /\ generations[i].result_image_url # None
      /\ \E s \in StatusReqs : st[s].gid = i /\ st[s].downloaded

\* The status request s, polling, is told in this step that its job is
\* complete: it does not answer "processing".
ReportedComplete(s) ==
    /\ st[s].pc = "polling"
    /\ st'[s].pc # "polling"
    /\ (st'[s].pc = "done" => st'[s].resp.status # "processing")

\* C12: when the backend reports a submitted job complete and its history
\* holds no recognizable output, the status check that loaded the row as
\* processing writes failed, never completed; with the failsafe enabled it
\* mints a token, and when it returns the row's retry_code is that token
\* and stays non-null.
C12_EndToEndFailure ==
    [][/\ \A s \in StatusReqs :
            (ReportedComplete(s) /\ jobs[st[s].snap.prompt_id] = "empty") =>
              /\ st[s].snap.status = "processing"
              /\ generations'[st[s].gid].status = "failed"
              /\ ~st'[s].downloaded
              /\ settings.failsafe_enabled =>
                    /\ st'[s].pc = "minted"
                    /\ st'[s].token \in RetryTokens
                    /\ ~promo[st'[s].token].exists
                    /\ promo'[st'[s].token] = FailsafeRow
              /\ ~settings.failsafe_enabled =>
                    st'[s].resp = Respond("failed", None, Null)
       /\ \A s \in StatusReqs :
            (st[s].pc = "minted" /\ st'[s].pc = "done") =>
              /\ generations'[st[s].gid].retry_code = st[s].token
              /\ st[s].token # Null
              /\ st'[s].resp = Respond("failed", None, st[s].token)
       /\ \A i \in DOMAIN generations :
            /\ generations[i].retry_code # Null =>
                  generations'[i].retry_code # Null
            /\ (generations[i].prompt_id # None
                 /\ jobs[generations[i].prompt_id] = "empty") =>
                  generations'[i].status # "completed"]_vars

\* With the failsafe enabled, a status request found a finished job without
\* output, and it has returned: the row is failed and holds the token the
\* request answered with.
C12_Witness ==
    \E s \in StatusReqs :
      /\ settings.failsafe_enabled
      /\ st[s].pc = "done"
      /\ st[s].commits = 2
      /\ st[s].gid \in DOMAIN generations
      /\ jobs[generations[st[s].gid].prompt_id] = "empty"
      /\ generations[st[s].gid].status = "failed"
      /\ generations[st[s].gid].retry_code = st[s].resp.retry_code
      /\ st[s].resp.retry_code \in RetryTokens

\* C13: a compensation token is created active with uses_remaining =
\* max_uses = 1 and no expiry, and generate redeems it exactly once: a
\* consume of it succeeds only while the table holds uses_remaining = 1 and
\* leaves 0, and every consume of it after that is rejected as fully used.
C13_TokenRedeemedExactlyOnce ==
    [][/\ \A t \in RetryTokens :
            (~promo[t].exists /\ promo'[t].exists) =>
              promo'[t] = PromoRow(TRUE, 1, 1, None)
       /\ \A g \in GenReqs :
            (gen[g].pc = "loaded" /\ gen'[g].pc # "loaded"
             /\ gen[g].code \in RetryTokens /\ gen[g].snap.exists) =>
              IF promo[gen[g].code].uses_remaining = 1
              THEN /\ gen'[g].authorized
                   /\ promo'[gen[g].code].uses_remaining = 0
              ELSE /\ ~gen'[g].authorized
                   /\ gen'[g].detail = "This code has been fully used"
                   /\ promo' = promo]_vars

\* C14: with the failsafe enabled, no ledger row is failed with a null
\* retry_code, and no status response reports failed with a null
\* retry_code.
C14_FailureCarriesRetryCode ==
    settings.failsafe_enabled =>
      /\ \A i \in DOMAIN generations :
           generations[i].status = "failed" => generations[i].retry_code # Null
      /\ \A s \in StatusReqs :
           (st[s].pc = "done" /\ st[s].resp.status = "failed") =>
             st[s].resp.retry_code # Null

\* The same for rows that were submitted, whose failure is a resolution
\* failure: also violated, in the window between the two commits of
\* generation_status.
ResolutionFailureCarriesRetryCode ==
    settings.failsafe_enabled =>
      /\ \A i \in DOMAIN generations :
           (generations[i].status = "failed" /\ generations[i].prompt_id # None)
             => generations[i].retry_code # Null
      /\ \A s \in StatusReqs :
           (st[s].pc = "done" /\ st[s].resp.status = "failed"
            /\ generations[st[s].gid].prompt_id # None) =>
             st[s].resp.retry_code # Null

\* A row whose submission failed in generate: failed, without a job id.
SubmissionFailed(row) == row.status = "failed" /\ row.prompt_id = None

\* C15: a token comes into being only in a step of a status check that
\* moves its row from processing to failed; and a row that failed in
\* generate's submission has no retry_code, then or later.
C15_MintOnlyOnResolutionFailure ==
    [][/\ \A t \in RetryTokens :
            (~promo[t].exists /\ promo'[t].exists) =>
              \E s \in StatusReqs :
                /\ st[s].pc = "polling"
                /\ st'[s].token = t
                /\ generations[st[s].gid].status = "processing"
                /\ generations'[st[s].gid].status = "failed"
       /\ \A i \in DOMAIN generations :
            SubmissionFailed(generations[i]) =>
              /\ generations[i].retry_code = Null
              /\ generations'[i] = generations[i]]_vars

\* What holds of the code: a token is minted only by a status check that
\* loaded its row as processing, and a row whose submission failed never
\* changes and never holds a retry_code.
MintOnlyByCheckThatLoadedProcessing ==
    [][/\ \A t \in RetryTokens :
            (~promo[t].exists /\ promo'[t].exists) =>
              \E s \in StatusReqs :
                /\ st[s].pc = "polling"
                /\ st'[s].token = t
                /\ st[s].snap.status = "processing"
                /\ generations'[st[s].gid].status = "failed"
       /\ \A i \in DOMAIN generations :
            SubmissionFailed(generations[i]) =>
              /\ generations[i].retry_code = Null
              /\ generations'[i] = generations[i]]_vars

\* C16: when generate's submission fails (the fan image's upload fails, or
\* queue_prompt gives no prompt id), the row goes from pending to failed
\* with a null prompt_id, no job is created, the request answers 500; the
\* row never changes again, and no status request ever polls the backend
\* for a row without a prompt_id.
C16_SubmissionFailure ==
    [][/\ \A g \in GenReqs :
            (gen[g].pc = "created" /\ gen'[g].pc = "done"
             /\ gen'[g].selfie # "submitted") =>
              /\ gen'[g].selfie \in {"Failed to upload fan image to ComfyUI",
                                      "Failed to queue prompt on ComfyUI"}
              /\ generations[gen[g].gid].status = "pending"
              /\ generations'[gen[g].gid].status = "failed"
              /\ generations'[gen[g].gid].prompt_id = None
              /\ jobs' = jobs
              /\ gen'[g].http = 500
       /\ \A i \in DOMAIN generations :
            SubmissionFailed(generations[i]) => generations'[i] = generations[i]
       /\ \A s \in StatusReqs :
            (st[s].gid \in DOMAIN generations
             /\ generations[st[s].gid].prompt_id = None) =>
              /\ st[s].pc \notin {"polling", "minted"}
              /\ ~st[s].queried
              /\ st[s].token = Null]_vars

\* One submission failed at the upload and one at queue_prompt; a status
\* request on a row whose submission failed has answered failed without
\* asking the backend.
C16_Witness ==
    /\ \E g \in GenReqs :
         gen[g].selfie = "Failed to upload fan image to ComfyUI"
    /\ \E g \in GenReqs, s \in StatusReqs :
         /\ gen[g].selfie = "Failed to queue prompt on ComfyUI"
         /\ SubmissionFailed(generations[gen[g].gid])
         /\ st[s].gid = gen[g].gid
         /\ st[s].pc = "done"
         /\ st[s].resp.status = "failed"
         /\ ~st[s].queried

\* C17: a rejected upload of the fan image or of the influencer image is
\* fatal to the job: the request does not submit a graph and its row is
\* failed.
C17_RejectedUploadIsFatal ==
    \A g \in GenReqs :
      (gen[g].pc = "done"
       /\ (gen[g].infl = "rejected"
           \/ gen[g].selfie = "Failed to upload fan image to ComfyUI")) =>
        /\ gen[g].selfie # "submitted"
        /\ generations[gen[g].gid].prompt_id = None
        /\ generations[gen[g].gid].status = "failed"

\* C18: when the queue snapshot cannot be fetched, is_prompt_complete does
\* not report the job complete and get_generation_status does not go on to
\* the history lookup on that call.
C18_FailedSnapshotIsNotCompletion ==
    (poll.n > 0 /\ poll.queueResp # "200") =>
      /\ ~poll.complete
      /\ poll.pc # "history"
      /\ poll.histResp = Null

\* The call of get_generation_status returns from its history lookup in
\* this step, with the job in neither list of the backend's queue.
ReturnsOutOfQueue ==
    /\ poll.pc = "history"
    /\ poll'.pc = "done"
    /\ \A i \in DOMAIN comfyQueue.queue_pending :
         comfyQueue.queue_pending[i][2] # PromptId
    /\ \A i \in DOMAIN comfyQueue.queue_running :
         comfyQueue.queue_running[i][2] # PromptId

\* C19: when the job is in neither the pending nor the running list and
\* the history lookup returns nothing for its id (the lookup fails, or the
\* body has no entry), get_generation_status reports not-completed without
\* a result; a status request that polls then leaves the row processing,
\* downloads and mints nothing and answers processing.  (That a later poll
\* resolves the job is the witness.)
C19_AbsentHistoryIsNotCompleted ==
    [][/\ (ReturnsOutOfQueue
           /\ (poll'.histResp # "200" \/ ~comfyHistory.present)) =>
             /\ ~poll'.result.completed
             /\ poll'.result.image_url = <<>>
       /\ \A s \in StatusReqs :
            (st[s].pc = "polling" /\ st'[s].pc # "polling"
             /\ comfyQueue = EmptyQueue /\ ~comfyHistory.present) =>
              /\ generations[st[s].gid].status = "processing"
              /\ generations' = generations
              /\ promo' = promo
              /\ st'[s].pc = "done"
              /\ st'[s].resp = Respond("processing", None, Null)
              /\ ~st'[s].downloaded
              /\ st'[s].token = Null]_vars

\* A call found the job out of the queue without history, a later call
\* found its image, and a status request made after the history appeared
\* has completed the row.
C19_Witness ==
    /\ poll.lagged
    /\ poll.pc = "done"
    /\ poll.result.completed
    /\ poll.result.image_url # <<>>
    /\ generations[1].status = "completed"
    /\ st[1].downloaded

\* The URL the claim gives for an output file.
ExpectedUrl(file) ==
    IF file.subfolder \in {"", Missing}
    THEN <<BaseUrl, "output", file.filename>>
    ELSE <<BaseUrl, "output", file.subfolder, file.filename>>

\* The node's images entry has a filename.
HasNamedImage(node) ==
    node.images # <<>> /\ node.images[1].filename \notin {Missing, ""}

HasNamedGif(node) ==
    node.gifs # <<>> /\ node.gifs[1].filename \notin {Missing, ""}

\* C20: when the job has left the queue and its history holds an images
\* entry with a filename for some node, get_generation_status returns
\* completed with the URL of an output entry of the history, of the form
\* base/output/subfolder/filename when that entry's subfolder is non-empty
\* and base/output/filename when it is empty or missing; when no node has
\* a gifs entry, it is the URL of the first node's images entry that has a
\* filename.
C20_ImageUrlForm ==
    [][(/\ ReturnsOutOfQueue
        /\ poll'.histResp = "200"
        /\ comfyHistory.present
        /\ \E i \in DOMAIN comfyHistory.outputs :
             HasNamedImage(comfyHistory.outputs[i])) =>
          LET outputs == comfyHistory.outputs
              url == poll'.result.image_url
              imageNodes == {i \in DOMAIN outputs : HasNamedImage(outputs[i])}
              gifNodes == {i \in DOMAIN outputs : HasNamedGif(outputs[i])}
          IN /\ poll'.result.completed
             /\ \/ \E i \in imageNodes : url = ExpectedUrl(outputs[i].images[1])
                \/ \E i \in gifNodes : url = ExpectedUrl(outputs[i].gifs[1])
             /\ gifNodes = {} =>
                  \E i \in imageNodes :
                    /\ \A j \in imageNodes : i <= j
                    /\ url = ExpectedUrl(outputs[i].images[1])]_vars

\* The history's first node has no output and its second node an image in
\* a subfolder: the call returned the four-segment URL.
C20_Witness ==
    /\ poll.pc = "done"
    /\ poll.result.completed
    /\ Len(comfyHistory.outputs) = 2
    /\ comfyHistory.outputs[1] = [images |-> <<>>, gifs |-> <<>>]
    /\ poll.result.image_url = <<BaseUrl, "output", "sub", "selfie.png">>

\* The same with a missing subfolder key: the three-segment URL.
UrlWithoutSubfolderReached ==
    /\ poll.pc = "done"
    /\ comfyHistory.present
    /\ Len(comfyHistory.outputs) = 1
    /\ comfyHistory.outputs[1].images # <<>>
    /\ comfyHistory.outputs[1].images[1].subfolder = Missing
    /\ poll.result.image_url = <<BaseUrl, "output", "selfie.png">>

\* C21: a call that reads the job's history returns one result with at most
\* one URL: that of the first node, in the order of the outputs, that has
\* an images or a gifs entry with a filename, taking that node's images
\* entry when it has a filename and its gifs entry otherwise; when no node
\* has such an entry the result is completed with image_url None, which is
\* not the not-completed result.
C21_FirstMatchWins ==
    [][(/\ ReturnsOutOfQueue
        /\ poll'.histResp = "200"
        /\ comfyHistory.present) =>
          LET outputs == comfyHistory.outputs
              url == poll'.result.image_url
              matches == {i \in DOMAIN outputs :
                            HasNamedImage(outputs[i]) \/ HasNamedGif(outputs[i])}
          IN /\ poll'.result.completed
             /\ poll'.result # NotCompleted
             /\ matches = {} => url = NoUrl
             /\ \A i \in matches :
                  (\A j \in matches : i <= j) =>
                    url = IF HasNamedImage(outputs[i])
                          THEN ExpectedUrl(outputs[i].images[1])
                          ELSE ExpectedUrl(outputs[i].gifs[1])]_vars

\* The first node has an image and a gif, the second an image in a
\* subfolder: the call returned the first node's image.
C21_Witness ==
    /\ poll.pc = "done"
    /\ poll.result.completed
    /\ Len(comfyHistory.outputs) = 2
    /\ comfyHistory.outputs[1] =
         [images |-> <<OutputFile("selfie.png", "")>>,
          gifs |-> <<OutputFile("selfie.gif", "sub")>>]
    /\ comfyHistory.outputs[2].images = <<OutputFile("selfie.png", "sub")>>
    /\ poll.result.image_url = <<BaseUrl, "output", "selfie.png">>

\* A gif of the first node wins over an image of the second.
EarlierGifWins ==
    /\ poll.pc = "done"
    /\ Len(comfyHistory.outputs) = 2
    /\ comfyHistory.outputs[1] =
         [images |-> <<>>, gifs |-> <<OutputFile("selfie.gif", "")>>]
    /\ comfyHistory.outputs[2].images = <<OutputFile("selfie.png", "sub")>>
    /\ poll.result.image_url = <<BaseUrl, "output", "selfie.gif">>

\* The history's only node has an images entry without filename: completed
\* without output.
CompletedWithoutOutput ==
    /\ poll.pc = "done"
    /\ comfyHistory.present
    /\ comfyHistory.outputs =
         <<[images |-> <<OutputFile(Missing, "")>>, gifs |-> <<>>]>>
    /\ poll.histResp = "200"
    /\ poll.result = [completed |-> TRUE, image_url |-> NoUrl]

\* C22: a poll loop (wait_for_completion, generate_example) makes at most
\* its budget of checks; when the job was in the queue snapshot of every
\* check, the loop ends after exactly its budget of checks, the handler's
\* with success false and 'Generation timed out', the admin's without a
\* saved file; and every loop that starts ends.
C22_PollLoopBounded ==
    /\ [](loop.i <= Budget(loop.kind))
    /\ []((loop.pc = "done" /\ loop.queued) =>
            /\ loop.i = Budget(loop.kind)
            /\ ~loop.saved
            /\ loop.kind = HandlerLoop => loop.result = TimedOut
            /\ loop.kind = AdminLoop => loop.result = NoResult)
    /\ (loop.pc # "idle") ~> (loop.pc = "done")

\* wait_for_completion has made its 300 checks with the job queued at each
\* and has returned.
C22_Witness ==
    /\ loop.kind = HandlerLoop
    /\ loop.pc = "done"
    /\ loop.queued
    /\ loop.i = HandlerTimeout
    /\ loop.result = TimedOut

\* The same for generate_example after its 120 checks.
AdminLoopTimedOut ==
    /\ loop.kind = AdminLoop
    /\ loop.pc = "done"
    /\ loop.queued
    /\ loop.i = AdminPolls
    /\ ~loop.saved

\* Both loops also end early with the job's output.
LoopsEndWithOutput ==
    /\ loop.pc = "done"
    /\ loop.i < AdminPolls
    /\ loop.saved \/ loop.result.success

\* C23: under status requests repeated for ever, a processing row whose
\* job never yields a result (it stays in the queue, or has left it and its
\* history never appears) eventually becomes failed, with a retry code on
\* the row when the failsafe is enabled.
C23_StuckRowEventuallyFails ==
    (<>[](jobs[1] \in {"queued", "lagging"})) =>
      <>(/\ generations[1].status = "failed"
         /\ settings.failsafe_enabled => generations[1].retry_code # Null)

\* Status requests keep being answered "processing" for a queued job.
StuckRowPolledTwice ==
    /\ jobs[1] = "queued"
    /\ generations[1].status = "processing"
    /\ \A s \in StatusReqs :
         /\ st[s].pc = "done"
         /\ st[s].queried
         /\ st[s].resp = Respond("processing", None, Null)

\* C24: when the workflow file does not exist, a call of generate_selfie
\* fails at the load: it builds no graph in place of the workflow, goes on
\* to no later step and POSTs nothing to the backend.
C24_MissingTemplateIsFatal ==
    ~template.exists =>
      /\ heap = <<>>
      /\ submitted = <<>>
      /\ \A j \in Insts : inst[j].pc \in {"idle", "failed"}

\* Without the file, the error dict was POSTed as the prompt and the
\* backend's refusal is reported as a failure to queue.
ErrorDictSubmitted ==
    /\ ~template.exists
    /\ \E i \in DOMAIN submitted : submitted[i].graph = ErrorGraph
    /\ \E j \in Insts :
         /\ inst[j].pc = "failed"
         /\ inst[j].error = "Failed to queue prompt on ComfyUI"

\* C25: after a call of a mutation function (inject_images_into_workflow,
\* set_dimensions, set_prompt, set_random_seed) the dict that was passed is
\* as it was before the call, and the dict returned is another one.
C25_MutatorsLeaveInputUnchanged ==
    mut.fn # Null =>
      /\ heap[mut.arg] = mut.before
      /\ mut.ret # mut.arg

\* Each of the four functions has changed the dict it was given.
InputChangedBy(fn) ==
    /\ mut.fn = fn
    /\ heap[mut.arg] # mut.before
    /\ mut.ret = mut.arg

EveryMutatorChangesItsInput ==
    \/ InputChangedBy("inject_images_into_workflow")
    \/ InputChangedBy("set_dimensions")
    \/ InputChangedBy("set_prompt")
    \/ InputChangedBy("set_random_seed")

\* The graph a call's own inputs give from the file, whatever else runs.
OwnGraph(j) ==
    LET c == inst[j]
        g0 == IF template.exists THEN template.graph ELSE ErrorGraph
        g1 == WithImages(g0, c.fan, c.infl)
        g2 == IF c.width \notin {None, 0} /\ c.height \notin {None, 0}
              THEN WithDimensions(g1, c.width, c.height) ELSE g1
        g3 == IF c.prompt \notin {Null, ""} THEN WithPrompt(g2, c.prompt) ELSE g2
    IN WithSeed(g3, c.seed)

\* C26: concurrent calls of generate_selfie work on different dicts, and
\* the graph POSTed for a call is the file's graph with that call's image,
\* dimensions, prompt and seed: it holds no image name and no prompt of
\* the other call, whatever the interleaving.
C26_NoSharedNodeMap ==
    /\ \A j, k \in Insts :
         (j # k /\ inst[j].pc # "idle" /\ inst[k].pc # "idle") =>
           inst[j].ref # inst[k].ref
    /\ \A j \in Insts : inst[j].pc # "idle" => heap[inst[j].ref] = OwnGraph(j)
    /\ \A i \in DOMAIN submitted :
         LET j == submitted[i].job
             g == submitted[i].graph
         IN /\ g = OwnGraph(j)
            /\ \A k \in Insts \ {j}, id \in DOMAIN g :
                 /\ g[id].inputs.image # FanOf(k)
                 /\ g[id].inputs.text # PromptOf(k)

\* Call 1 built its graph first and POSTed it last, after call 2 had built
\* and POSTed its own with another prompt, size and seed.
C26_Witness ==
    /\ template.exists
    /\ Len(submitted) = 2
    /\ submitted[1].job = 2
    /\ submitted[2].job = 1
    /\ inst[1].ref = 1
    /\ inst[2].ref = 2
    /\ inst[1].prompt = PromptOf(1)
    /\ inst[2].prompt = PromptOf(2)
    /\ inst[1].seed # inst[2].seed
    /\ inst[1].width # inst[2].width
    /\ "6" \in DOMAIN template.graph
    /\ template.graph["6"].class_type = "CLIPTextEncode"
    /\ submitted[2].graph["6"].inputs.text = PromptOf(1)
    /\ submitted[2].graph["46"].inputs.image = FanOf(1)

\* w*h/1e6 clamped to [0.1, 16.0] and then rounded to 3 decimals, in
\* thousandths: the clamp is taken on the millionths.
ClampedThenRounded(w, h) ==
    LET clamped == Max(100000, Min(16000000, w * h))
    IN (clamped + 500) \div 1000

\* C27: a call set_dimensions(workflow, w, h) leaves every node of a
\* sized-output type with width w and height h and every
\* ImageScaleToTotalPixels node with megapixels equal to w*h/1e6 clamped
\* to [0.1, 16.0] and rounded to 3 decimals (1.049 for 1024x1024), changes
\* no other node, and a second call with the same w and h changes nothing.
C27_SetDimensions ==
    [][mut'.fn = "set_dimensions" =>
         LET w == mut'.args.width
             h == mut'.args.height
             old == mut'.before
             new == heap'[mut'.ret]
         IN /\ DOMAIN new = DOMAIN old
            /\ \A id \in DOMAIN old :
                 /\ old[id].class_type \in SizedTypes =>
                      /\ new[id].inputs.width = w
                      /\ new[id].inputs.height = h
                 /\ old[id].class_type = "ImageScaleToTotalPixels" =>
                      /\ new[id].inputs.megapixels = ClampedThenRounded(w, h)
                      /\ (w = 1024 /\ h = 1024) =>
                           new[id].inputs.megapixels = 1049
                 /\ old[id].class_type \notin
                      SizedTypes \cup {"ImageScaleToTotalPixels"} =>
                        new[id] = old[id]
            /\ (mut.fn = "set_dimensions" /\ mut.args = mut'.args) =>
                 heap' = heap]_vars

\* set_dimensions(workflow, 1024, 1024) was called on a graph that already
\* had the megapixels of an earlier such call, 1.049, and left it as it was.
C27_Witness ==
    /\ mut.fn = "set_dimensions"
    /\ mut.args.width = 1024
    /\ mut.args.height = 1024
    /\ "48" \in DOMAIN heap[1]
    /\ template.graph["48"].inputs.megapixels = 1000
    /\ mut.before["48"].inputs.megapixels = 1049
    /\ heap[1] = mut.before

\* A latent image of 512x512 was set to 512x768, and megapixels were
\* clamped at both ends.
SizedNodeResized ==
    /\ mut.fn = "set_dimensions"
    /\ "5" \in DOMAIN heap[1]
    /\ mut.before["5"].inputs.height = 512
    /\ heap[1]["5"].inputs.width = 512
    /\ heap[1]["5"].inputs.height = 768

MegapixelsClampedLow ==
    /\ mut.fn = "set_dimensions"
    /\ mut.args.width = 100
    /\ "48" \in DOMAIN heap[1]
    /\ heap[1]["48"].inputs.megapixels = 100

MegapixelsClampedHigh ==
    /\ mut.fn = "set_dimensions"
    /\ mut.args.width = 8192
    /\ "48" \in DOMAIN heap[1]
    /\ heap[1]["48"].inputs.megapixels = 16000

\* C28: a call set_prompt(workflow, text) leaves every CLIPTextEncode and
\* CLIPTextEncodeSDXL node that has a text input with exactly the text
\* given, and every other node, and every other input, as it was.
C28_SetPrompt ==
    [][mut'.fn = "set_prompt" =>
         LET text == mut'.args.text
             old == mut'.before
             new == heap'[mut'.ret]
         IN /\ DOMAIN new = DOMAIN old
            /\ \A id \in DOMAIN old :
                 IF old[id].class_type \in TextEncoders
                 THEN /\ old[id].inputs.text # Missing =>
                           new[id].inputs.text = text
                      /\ [new[id] EXCEPT !.inputs.text = old[id].inputs.text]
                           = old[id]
                 ELSE new[id] = old[id]]_vars

\* The positive and the negative prompt node were both overwritten.
C28_Witness ==
    /\ mut.fn = "set_prompt"
    /\ mut.args.text = PromptOf(2)
    /\ "7" \in DOMAIN heap[1]
    /\ mut.before["6"].inputs.text = "a selfie"
    /\ mut.before["7"].inputs.text = "blurry"
    /\ heap[1]["6"].inputs.text = PromptOf(2)
    /\ heap[1]["7"].inputs.text = PromptOf(2)

\* A node of another type kept its text, and the SDXL encoder, which has
\* no text input, got none.
OtherTextKept ==
    /\ mut.fn = "set_prompt"
    /\ "13" \in DOMAIN heap[1]
    /\ heap[1]["13"].inputs.text = "caption"
    /\ heap[1]["6"].class_type = "CLIPTextEncodeSDXL"
    /\ heap[1]["6"].inputs.text = Missing

\* 0 <= seed < 2^53 for a seed <<hi, lo>>.
SeedInRange(seed) ==
    /\ Len(seed) = 2
    /\ seed[1] \in 0..(SeedTop - 1)
    /\ seed[2] \in 0..(SeedLimb - 1)

\* The noise nodes of a graph that hold the given seed.
SeededNodes(g, seed) ==
    {id \in DOMAIN g :
       g[id].class_type = "RandomNoise" /\ g[id].inputs.noise_seed = seed}

\* C29: in the graph a call of generate_selfie POSTs, exactly one node of
\* the noise type holds the seed drawn in that call, an integer with
\* 0 <= seed < 2^53 (no seed drawn is the one the file came with).
C29_OneFreshSeedPerInstantiation ==
    \A i \in DOMAIN submitted :
      template.exists =>
        LET j == submitted[i].job
            g == submitted[i].graph
        IN /\ SeedInRange(inst[j].seed)
           /\ Cardinality(SeededNodes(g, inst[j].seed)) = 1

\* With the noise node under id 25 the drawn seed is set, here the largest.
SeedSetOnNode25 ==
    /\ template.exists
    /\ Len(submitted) = 2
    /\ submitted[1].graph["25"].inputs.noise_seed = <<SeedTop - 1, SeedLimb - 1>>
    /\ submitted[2].graph["25"].inputs.noise_seed = <<0, 0>>

\* With the noise node under another id both calls POST the file's seed.
FileSeedSubmittedTwice ==
    /\ template.exists
    /\ Len(submitted) = 2
    /\ "30" \in DOMAIN template.graph
    /\ inst[1].seed # inst[2].seed
    /\ submitted[1].graph["30"].inputs.noise_seed = FileSeed
    /\ submitted[2].graph["30"].inputs.noise_seed = FileSeed

\* The generate requests that were given the stored inputs of an id.
ConsumersOf(p) ==
    {g \in GenReqs : gen[g].pending_id = p /\ gen[g].session # "absent"}

\* C30: a pending session is used once.  A generate request that comes
\* with a pending id whose entry is in the store takes the entry and the
\* entry is gone; a request whose id has no entry gets no stored inputs and
\* changes nothing in the store, so that at most one request is ever given
\* the inputs of an id; get_pending_session leaves the store as it is; and
\* an entry appears only for a new id of create_payment.
C30_PendingSessionSingleUse ==
    /\ [](\A p \in PendingIds :
            /\ Cardinality(ConsumersOf(p)) <= 1
            /\ ConsumersOf(p) # {} => pending[p] = "absent")
    /\ [][/\ \A g \in GenReqs :
             (gen[g].pc = "idle" /\ gen'[g].pc # "idle") =>
               LET p == gen'[g].pending_id IN
                 IF p # Null /\ pending[p] # "absent"
                 THEN /\ gen'[g].session = pending[p]
                      /\ pending' = [pending EXCEPT ![p] = "absent"]
                 ELSE /\ gen'[g].session = "absent"
                      /\ pending' = pending
          /\ lookup' # lookup =>
               /\ pending' = pending
               /\ lookup'.found = (pending[lookup'.pending_id] # "absent")
          /\ \A p \in PendingIds :
               (pending[p] = "absent" /\ pending'[p] # "absent") =>
                 (p \notin issued /\ p \in issued')]_vars

\* The session of p1 was looked up and found, one generate request took
\* its stored image and a second request with the same id got nothing;
\* the entry of p2 is still there.
C30_Witness ==
    /\ issued = PendingIds
    /\ lookup.pending_id = "p1"
    /\ lookup.found
    /\ gen[1].pending_id = "p1"
    /\ gen[1].session = "image"
    /\ gen[2].pc # "idle"
    /\ gen[2].pending_id = "p1"
    /\ gen[2].session = "absent"
    /\ ~gen[2].image
    /\ pending["p1"] = "absent"
    /\ pending["p2"] # "absent"

\* C31: the write that makes a ledger row completed or failed is the last
\* write to the row: once a row is terminal no commit changes any of its
\* fields, the compensation code included.
C31_TerminalWriteIsLast ==
    [][\A i \in DOMAIN generations :
         generations[i].status \in Terminal =>
           generations'[i] = generations[i]]_vars

\* With one status request at a time the same holds of the statuses alone,
\* so the later write is the one of the compensation code.
TerminalStatusIsLastStatus ==
    [][\A i \in DOMAIN generations :
         generations[i].status \in Terminal =>
           generations'[i].status = generations[i].status]_vars

\* C32: submission comes before any poll.  A status request asks the
\* backend only about a row that it loaded with a prompt id, and by then
\* the generate request that inserted the row has had its prompt id from
\* generate_selfie, has stored it and has returned; a status request that
\* loads a pending row answers "pending" in the step that loads it, without
\* a query, a download or a write.
C32_SubmissionPrecedesPoll ==
    [][\A s \in StatusReqs :
         /\ (st'[s].pc = "polling" \/ (st'[s].queried /\ ~st[s].queried)) =>
              LET gid == st'[s].gid IN
                /\ gid \in DOMAIN generations
                /\ generations[gid].prompt_id # None
                /\ generations[gid].prompt_id \in DOMAIN jobs
                /\ generations[gid].status # "pending"
                /\ IF st'[s].pc = "polling"
                   THEN st'[s].snap.prompt_id = generations[gid].prompt_id
                   ELSE st[s].snap.prompt_id = generations[gid].prompt_id
                /\ \E g \in GenReqs :
                     /\ gen[g].gid = gid
                     /\ gen[g].pc = "done"
                     /\ gen[g].selfie = "submitted"
         /\ (/\ st[s].pc = "idle"
             /\ st'[s].pc # "idle"
             /\ st'[s].gid \in DOMAIN generations
             /\ generations[st'[s].gid].status = "pending") =>
              /\ st'[s].pc = "done"
              /\ ~st'[s].queried
              /\ ~st'[s].downloaded
              /\ st'[s].commits = 0
              /\ st'[s].resp = Respond("pending", None, Null)
              /\ generations' = generations
              /\ jobs' = jobs
              /\ promo' = promo]_vars

\* A status request found the row pending while its submission was in
\* flight and was answered "pending" without a query; after the submission
\* a second request for the same row asked the backend.
C32_Witness ==
    \E s, q \in StatusReqs :
      /\ st[s].pc = "done"
      /\ st[s].seen = "pending"
      /\ ~st[s].queried
      /\ st[s].resp.status = "pending"
      /\ st[q].gid = st[s].gid
      /\ st[q].seen = "processing"
      /\ st[q].queried

\* C33: a status request on a processing row makes one check.  While the
\* job is in the queue, or out of it with no history yet, the check leaves
\* the row as it is, in processing: nothing is downloaded, minted or
\* written and the answer is "processing", however often it is repeated.
\* A check changes the row only when the backend holds the job's history
\* now, and it answers "completed" only when that history holds an image.
C33_UnresolvedCheckIsIdempotent ==
    [][\A s \in StatusReqs :
         (st[s].pc = "polling" /\ st'[s].pc # "polling") =>
           LET gid == st[s].gid
               job == jobs[st[s].snap.prompt_id]
           IN /\ st'[s].queried
              /\ job \in {"queued", "lagging"} =>
                   /\ generations[gid].status = "processing"
                   /\ generations' = generations
                   /\ promo' = promo
                   /\ jobs' = jobs
                   /\ st'[s].pc = "done"
                   /\ ~st'[s].downloaded
                   /\ st'[s].token = Null
                   /\ st'[s].commits = 0
                   /\ st'[s].resp = Respond("processing", None, Null)
              /\ generations' # generations => job \in {"image", "empty"}
              /\ st'[s].resp.status = "completed" =>
                   /\ job = "image"
                   /\ st'[s].downloaded]_vars

\* One request checked while the job had left the queue without history
\* and was answered "processing"; after the history was written another
\* request for the same row downloaded the image and completed the row.
C33_Witness ==
    \E s, q \in StatusReqs :
      /\ st[s].pc = "done"
      /\ st[s].queried
      /\ st[s].commits = 0
      /\ st[s].resp = Respond("processing", None, Null)
      /\ st[q].pc = "done"
      /\ st[q].gid = st[s].gid
      /\ st[q].downloaded
      /\ st[q].resp.status = "completed"
      /\ generations[st[s].gid].status = "completed"
      /\ comfyHistory.present

\* The job is out of the queue with no history, and a request that checked
\* it then has been answered "processing".
CheckedWhileHistoryAbsent ==
    \E s \in StatusReqs :
      /\ jobs[1] = "lagging"
      /\ st[s].pc = "done"
      /\ st[s].queried
      /\ st[s].resp.status = "processing"

\* C34: all the requests of one call of the resolver go to one backend,
\* the one whose address was read when the call started: the queue
\* snapshot and the history lookup are asked at the address the output's
\* URL is built on, whatever the admin does to the setting meanwhile.
C34_OneBackendPerResolution ==
    /\ poll.queue_url # Null => poll.queue_url = poll.base_url
    /\ poll.history_url # Null => poll.history_url = poll.base_url
    /\ poll.result.image_url # NoUrl =>
         poll.result.image_url[1] = poll.history_url

\* The queue snapshot is always asked at the address read at the start.
QueueAskedAtCapturedUrl ==
    poll.queue_url # Null => poll.queue_url = poll.base_url

\* An output's URL is never built on another address than the one of the
\* backend whose history named the file.
OutputUrlNamesItsBackend ==
    poll.result.image_url # NoUrl =>
      poll.result.image_url[1] = poll.history_url

\* The kind of an answer of one of the three checks.
KindOf(error) ==
    IF error = "" THEN "valid"
    ELSE IF error \in {"Invalid promo code", "Invalid code"} THEN "invalid"
    ELSE IF error \in {"This code has been fully used",
                       "Code has been fully used", "Code fully used"}
         THEN "fully used"
    ELSE IF error \in {"This code has expired", "Code has expired",
                       "Code expired"}
         THEN "expired"
    ELSE "other"

\* C35: the three checks of a code agree.  Whatever the row and the time,
\* validate_code and get_code_info answer valid exactly when
\* validate_and_consume_code accepts that row at that time, and a
\* rejection is of the same kind in all three: invalid, fully used or
\* expired.  It is stated of every preview and of every consuming call
\* that is made, on the row each of them loaded.
C35_ThreeChecksAgree ==
    [][/\ validated' # validated =>
            LET row == SelectActive(promo, validated'.code) IN
              /\ KindOf(validated'.error) = KindOf(ConsumeError(row, now))
              /\ KindOf(validated'.error) # "other"
              /\ KindOf(ValidateCodeError(row, now)) =
                   KindOf(GetCodeInfoError(row, now))
       /\ \A c \in Callers :
            (call[c].pc = "loaded" /\ call'[c].pc = "done") =>
              /\ KindOf(call'[c].error) =
                   KindOf(ValidateCodeError(call[c].snap, now))
              /\ KindOf(call'[c].error) =
                   KindOf(GetCodeInfoError(call[c].snap, now))
              /\ KindOf(call'[c].error) # "other"]_vars

\* get_code_info has answered that a code with no uses left that is also
\* past its expiry is fully used, and a consuming call that loaded the same
\* row was refused for the same reason.
C35_Witness ==
    \E c \in Callers :
      /\ validated.endpoint = "get_code_info"
      /\ validated.error = "Code fully used"
      /\ call[c].pc = "done"
      /\ call[c].code = validated.code
      /\ call[c].error = "This code has been fully used"
      /\ call[c].snap.expires_at # None
      /\ call[c].snap.expires_at < call[c].at
      /\ promo[validated.code].expires_at # None
      /\ promo[validated.code].expires_at < validated.at

\* Each kind of answer has been given by a preview.
PreviewAnsweredExpired ==
    validated.endpoint = "validate_code" /\ validated.error = "Code has expired"

\* C36: a call of validate_and_consume_code changes at most the
\* uses_remaining of the code it names.  When it succeeds on a finite code
\* the stored count is lowered by exactly 1, when it succeeds on an
\* unlimited code the count stays null, when it rejects nothing changes;
\* the count of a finite code is never below 0.
C36_ConsumeEffect ==
    [][\A c \in Callers :
         (call[c].pc = "loaded" /\ call'[c].pc = "done") =>
           LET code == call[c].code
               before == promo[code]
               after == promo'[code]
           IN /\ promo' = [promo EXCEPT
                             ![code].uses_remaining = after.uses_remaining]
              /\ (call'[c].error = "" /\ before.max_uses # None) =>
                   after.uses_remaining = before.uses_remaining - 1
              /\ (call'[c].error = "" /\ before.max_uses = None) =>
                   after.uses_remaining = None
              /\ call'[c].error # "" => promo' = promo
              /\ after.max_uses # None => after.uses_remaining >= 0]_vars

\* The same with the count lowered from the value the call loaded: what a
\* successful call writes is the loaded count minus 1.
ConsumeWritesLoadedCountLessOne ==
    [][\A c \in Callers :
         (call[c].pc = "loaded" /\ call'[c].pc = "done") =>
           LET code == call[c].code
               after == promo'[code]
           IN /\ promo' = [promo EXCEPT
                             ![code].uses_remaining = after.uses_remaining]
              /\ (call'[c].error = "" /\ call[c].snap.max_uses # None) =>
                   after.uses_remaining = call[c].snap.uses_remaining - 1
              /\ (call'[c].error = "" /\ call[c].snap.max_uses = None) =>
                   after.uses_remaining = None
              /\ call'[c].error # "" => promo' = promo
              /\ after.max_uses # None => after.uses_remaining >= 0]_vars

\* A successful call on a finite code that no other call had loaded at
\* the time lowers the stored count by exactly 1.
SequentialConsumeLowersByOne ==
    [][\A c \in Callers :
         (/\ call[c].pc = "loaded"
          /\ call'[c].pc = "done"
          /\ call'[c].error = ""
          /\ call[c].snap = promo[call[c].code]
          /\ promo[call[c].code].max_uses # None) =>
           promo'[call[c].code].uses_remaining =
             promo[call[c].code].uses_remaining - 1]_vars

\* C37: the fields of every ledger row fit its status.  A processing row
\* holds a prompt id; a completed row holds a result URL and completed_at
\* and no retry code; a pending row holds no prompt id, no result URL and
\* no retry code.
C37_RowFieldsFitStatus ==
    \A i \in DOMAIN generations :
      LET row == generations[i] IN
        /\ row.status = "processing" => row.prompt_id # None
        /\ row.status = "completed" =>
             /\ row.result_image_url # None
             /\ row.completed_at # None
             /\ row.retry_code = Null
        /\ row.status = "pending" =>
             /\ row.prompt_id = None
             /\ row.result_image_url = None
             /\ row.retry_code = Null

\* The same without the retry code of a completed row.
RowFieldsFitStatusButRetryCode ==
    \A i \in DOMAIN generations :
      LET row == generations[i] IN
        /\ row.status = "processing" => row.prompt_id # None
        /\ row.status = "completed" =>
             /\ row.result_image_url # None
             /\ row.completed_at # None
        /\ row.status = "pending" =>
             /\ row.prompt_id = None
             /\ row.result_image_url = None
             /\ row.retry_code = Null

\* What generate answers before it looks at the code.
EarlyRefusals ==
    {"Invalid or inactive preset", "Promo codes not enabled",
     "Promo code required"}

\* C38: the preset and the codes-enabled setting are checked before the
\* code is consumed.  A request refused for its preset, because promo
\* codes are disabled or because it carries no code is refused in its
\* first step, before any code is looked up: no uses_remaining changes,
\* no row is created and nothing is submitted.
C38_EarlyRefusalConsumesNothing ==
    [][\A g \in GenReqs :
         (gen[g].pc # "done" /\ gen'[g].pc = "done"
          /\ gen'[g].detail \in EarlyRefusals) =>
           /\ gen[g].pc = "idle"
           /\ promo' = promo
           /\ generations' = generations
           /\ jobs' = jobs
           /\ gen'[g].http = 400
           /\ ~gen'[g].authorized
           /\ gen'[g].gid = None]_vars

\* One request was refused for its preset and one because codes are
\* disabled, and the code still has its one use.
C38_Witness ==
    \E g1, g2 \in GenReqs :
      /\ gen[g1].detail = "Invalid or inactive preset"
      /\ gen[g2].detail = "Promo codes not enabled"
      /\ ~settings.codes_enabled
      /\ promo["PROMO"].is_active
      /\ promo["PROMO"].expires_at = None
      /\ promo["PROMO"].uses_remaining = 1

\* A request without a code was refused while codes are enabled.
RefusedForMissingCode ==
    \E g \in GenReqs :
      gen[g].detail = "Promo code required" /\ settings.codes_enabled

\* The text input of every node of a graph.
PromptTexts(g) == [id \in DOMAIN g |-> g[id].inputs.text]

\* The workflow as the file gives it.
FileGraph == IF template.exists THEN template.graph ELSE ErrorGraph

\* C39: the prompt that is submitted depends on the caller's prompt only
\* when the preset allows editing.  Two requests with the same preset that
\* forbids editing submit the same texts whatever prompts they carry or
\* have stored: the preset's prompt, or the file's texts when the preset
\* has none; and a request without a preset submits the file's texts, no
\* prompt being injected.
C39_PromptIndependentOfCaller ==
    /\ \A a, b \in DOMAIN submitted :
         LET ra == inst[submitted[a].job]
             rb == inst[submitted[b].job]
         IN (ra.preset = rb.preset /\ ~ra.preset.allow_prompt_edit) =>
              PromptTexts(submitted[a].graph) = PromptTexts(submitted[b].graph)
    /\ \A a \in DOMAIN submitted :
         LET r == inst[submitted[a].job]
             texts == PromptTexts(submitted[a].graph)
         IN /\ ~r.preset.exists =>
                 r.prompt = Null /\ texts = PromptTexts(FileGraph)
            /\ (r.preset.exists /\ ~r.preset.allow_prompt_edit) =>
                 /\ r.prompt = r.preset.prompt
                 /\ texts = PromptTexts(
                      IF r.preset.prompt \notin {Null, ""}
                      THEN WithPrompt(FileGraph, r.preset.prompt)
                      ELSE FileGraph)

\* Two requests with the same preset, which forbids editing, and with
\* different prompts of their own have both submitted the preset's prompt.
C39_Witness ==
    /\ template.exists
    /\ "6" \in DOMAIN template.graph
    /\ template.graph["6"].class_type = "CLIPTextEncode"
    /\ Len(submitted) = 2
    /\ inst[1].preset = inst[2].preset
    /\ inst[1].preset.exists
    /\ ~inst[1].preset.allow_prompt_edit
    /\ inst[1].preset.prompt = "preset prompt"
    /\ inst[1].custom_prompt = PromptOf(1)
    /\ inst[2].custom_prompt = PromptOf(2)
    /\ submitted[1].graph["6"].inputs.text = "preset prompt"
    /\ submitted[2].graph["6"].inputs.text = "preset prompt"

\* With a preset that allows editing the caller's prompt is submitted, the
\* stored one when the request carries none.
CallerPromptSubmittedWhenAllowed ==
    /\ template.exists
    /\ "6" \in DOMAIN template.graph
    /\ template.graph["6"].class_type = "CLIPTextEncode"
    /\ Len(submitted) = 2
    /\ inst[1].preset = inst[2].preset
    /\ inst[1].preset.allow_prompt_edit
    /\ submitted[1].graph["6"].inputs.text = PromptOf(submitted[1].job)
    /\ submitted[2].graph["6"].inputs.text = "stored prompt"

\* A request without a preset that carries a prompt has submitted the
\* file's texts.
NoPresetSubmitsFileTexts ==
    \E a \in DOMAIN submitted :
      LET r == inst[submitted[a].job] IN
        /\ template.exists
        /\ ~r.preset.exists
        /\ r.custom_prompt = PromptOf(submitted[a].job)
        /\ submitted[a].graph = WithSeed(WithImages(FileGraph, r.fan, r.infl),
                                         r.seed)

\* C40: a generate request that carries a pending id whose entry is in the
\* store removes the entry in its first step, whether it is then refused
\* or not, and an entry that was removed does not come back: after a
\* request refused for an unpaid payment the stored image and prompt are
\* gone, and a retry with the same pending id gets nothing.
C40_EntryRemovedEvenWhenRefused ==
    /\ [](\A g \in GenReqs :
            (gen[g].pc # "idle" /\ gen[g].session # "absent") =>
              /\ pending[gen[g].pending_id] = "absent"
              /\ \A r \in GenReqs \ {g} :
                   gen[r].pending_id = gen[g].pending_id =>
                     gen[r].session = "absent")
    /\ [][/\ \A g \in GenReqs :
             (/\ gen[g].pc = "idle"
              /\ gen'[g].pc # "idle"
              /\ gen'[g].pending_id # Null
              /\ pending[gen'[g].pending_id] # "absent") =>
               /\ pending'[gen'[g].pending_id] = "absent"
               /\ gen'[g].session = pending[gen'[g].pending_id]
          /\ \A p \in PendingIds :
               (p \in issued /\ pending[p] = "absent") =>
                 pending'[p] = "absent"]_vars

\* A request with the stored image of p1 was refused because the payment
\* was not completed; after the payment its retry with p1 was authorized
\* and has no image.
C40_Witness ==
    \E g, r \in GenReqs :
      /\ gen[g].pc = "done"
      /\ gen[g].detail = "Payment not completed"
      /\ gen[g].pending_id = "p1"
      /\ gen[g].session = "image"
      /\ gen[r].pc = "authorized"
      /\ gen[r].pending_id = "p1"
      /\ gen[r].session = "absent"
      /\ ~gen[r].image
      /\ pending["p1"] = "absent"

====
